---- MODULE Spec2Model ----
(***************************************************************************)
(* Multi-Adapter-Particles: the host thread of Particles (Particles.cpp),  *)
(* the Compute and Render objects (Compute.cpp, Render.cpp) and the three  *)
(* D3D12 command queues they feed (compute, copy, graphics).  The host     *)
(* enqueues Wait / Signal / ExecuteCommandLists on the queues; each queue  *)
(* retires its commands in submission order, concurrently with the host    *)
(* and with the other queues.  A command list's execution has a begin and  *)
(* an end step, so that two executions overlapping in time are visible.    *)
(***************************************************************************)
EXTENDS Integers, Sequences, FiniteSets, TLC

\* ---------------------------------------------------------------- bounds
\* ticks (calls of Particles::Draw) the host performs
MaxTicks == 3
\* ticks in which the GUI changes an adapter, full-screen or extension setting
MaxReconfigs == 1
\* adapters enumerated by the DXGI factory
NumAdapters == 2

\* ------------------------------------------------------------- constants
\* Compute::m_NUM_BUFFERS: ping-pong depth of the particle buffers
m_NUM_BUFFERS == 2
\* Render's NUM_FRAMES: swap-chain back buffers (period of m_frameIndex)
NUM_FRAMES == 2

Adapters == 0 .. (NumAdapters - 1)
Slots == 0 .. (m_NUM_BUFFERS - 1)
\* identities of the Render / Compute instances created during a run
Ids == 0 .. MaxReconfigs
NoId == -1

\* particle data is tracked by version: 0 is the seed written by
\* InitializeParticles, f > 0 the output of the Simulate of tick f, Torn the
\* result of reading a buffer while it is being written.
Torn == -1
NoVer == -2

QueueKinds == {"compute", "copy", "gfx"}
FenceKinds == {"compute", "copy", "render"}
QueueIds == QueueKinds \X Ids
FenceIds == FenceKinds \X Ids
NoFence == <<"none", NoId>>

VARIABLES
    adapterExt,      \* per adapter: what ExtensionHelper::GetEnabled() of a device
                     \* on it returns, "unknown" until the program first calls it
    particles,       \* the Particles object's fields and Draw()'s locals
    render,          \* Render instances by id
    compute,         \* Compute instances by id
    todo,            \* the host thread's remaining steps (its continuation)
    tick,            \* calls of Particles::Draw started so far
    reconfigs,       \* ticks in which the GUI changed a reconfiguring setting
    queue,           \* per command queue: commands submitted and not yet started
    running,         \* per command queue: the command list being executed
    fence,           \* per fence: its completed value
    posMem,          \* per Compute id: versions held by its shared-heap position buffers
    velMem,          \* per Compute id: versions held by its velocity buffers (buf) and
                     \* the velocity data staged in its shared heap by CopyState (heap)
    localMem,        \* per Render id: versions held by its local buffers m_buffers
    sigLog,          \* per fence: the values passed to Signal, in submission order
    tickInfo,        \* what the current tick's Draw and Simulate selected
    copyLog,         \* per CopySimulationResults call: its fences and values
    sampled,         \* the last finished draw: its tick and the version it read
    counts,          \* the particle counts of Particles and what each stage was
                     \* handed (the fence protocol does not depend on them)
    settings,        \* the GUI's adapter, full-screen and extension settings over
                     \* any number of ticks, and what each tick rebuilt for them
    imports,         \* the shared handles Render and Compute open, where an
                     \* OpenSharedHandle may fail, and what was enqueued with them
    alias            \* a Compute on which SetAsync has been applied with Render's
                     \* buffers, and the calls of ResetFromAsyncHelper on it

vars == <<adapterExt, particles, render, compute, todo, tick, reconfigs,
          queue, running, fence, posMem, velMem, localMem, sigLog, tickInfo, copyLog, sampled,
          counts, settings, imports, alias>>

envVars == <<adapterExt>>
\* state the fence protocol neither reads nor writes
sideVars == <<counts, settings, imports, alias>>
gpuVars == <<queue, running, fence, posMem, velMem, localMem, sampled>>

\* ------------------------------------------------------------- commands
\* the work of one ExecuteCommandLists call
NoWork == [kind |-> "none", tick |-> 0, c |-> NoId, r |-> NoId,
           src |-> NoId, dst |-> NoId, from |-> NoId, in |-> NoVer, alt |-> NoVer,
           a |-> NoId]

Work(kind, t, c, r, src, dst) ==
    [kind |-> kind, tick |-> t, c |-> c, r |-> r,
     src |-> src, dst |-> dst, from |-> NoId, in |-> NoVer, alt |-> NoVer,
     a |-> NoId]

\* a whole-buffer copy between two Compute instances' buffers
WorkFrom(kind, c, from) == [Work(kind, 0, c, NoId, NoId, NoId) EXCEPT !.from = from]

\* x as recorded after "allocators[a]->Reset(); list->Reset(allocators[a], ...)":
\* a is the index, in its owner's allocator array, of the command allocator
\* the list was recorded through
Via(x, a) == [x EXCEPT !.a = a]

WaitCmd(f, v) == [op |-> "wait", f |-> f, v |-> v, x |-> NoWork]
SignalCmd(f, v) == [op |-> "signal", f |-> f, v |-> v, x |-> NoWork]
ExecCmd(x) == [op |-> "exec", f |-> NoFence, v |-> 0, x |-> x]


\* ---------------------------------------------------- memory of the GPUs
\* the buffer slots a command list reads and writes, as <<memory, id, slot>>
Reads(x) ==
    CASE x.kind = "dispatch"  -> {<<"shared", x.c, x.src>>}
      [] x.kind = "copy"      -> {<<"shared", x.c, x.src>>}
      [] x.kind = "setshared" -> {<<"shared", x.c, s>> : s \in Slots}
      [] x.kind = "draw"      -> {<<"local", x.r, x.src>>}
      [] x.kind = "copystate" -> {<<"shared", x.from, s>> : s \in Slots}
      [] x.kind = "velcopy"   -> {<<"shared", x.from, s>> : s \in Slots}
      [] x.kind = "resetasync" -> {<<"local", x.r, s>> : s \in Slots}
      [] OTHER                -> {}

Writes(x) ==
    CASE x.kind = "dispatch"  -> {<<"shared", x.c, x.dst>>}
      [] x.kind = "copy"      -> {<<"local", x.r, x.dst>>}
      [] x.kind = "setshared" -> {<<"local", x.r, s>> : s \in Slots}
      [] x.kind = "seed"      -> {<<"shared", x.c, s>> : s \in Slots}
      [] x.kind = "copystate" -> {<<"shared", x.c, s>> : s \in Slots}
      [] x.kind = "vel2pos"   -> {<<"shared", x.c, s>> : s \in Slots}
      [] x.kind = "resetasync" -> {<<"shared", x.c, s>> : s \in Slots}
      [] OTHER                -> {}

\* x reads what y writes
ReadsFrom(x, y) == Reads(x) \cap Writes(y) # {}

\* the version a reader obtains: what the buffer held when it began, unless a
\* writer of that buffer overlapped it; then the old contents, the writer's
\* output or a mixture of both
Outcomes(x) == IF x.alt = NoVer THEN {x.in} ELSE {x.in, x.alt, Torn}

\* the version a writer produces
Produces(y) == IF y.kind = "dispatch" THEN y.tick ELSE Torn

\* ------------------------------------------------------ command queues
\* ID3D12CommandQueue::Wait holds back the commands submitted after it until
\* the fence has reached the value.  A Wait has no effect of its own, so it
\* retires together with the command it guards.
LeadingWaits(cmds) ==
    LET others == {i \in 1 .. Len(cmds) : cmds[i].op # "wait"}
    IN IF others = {} THEN Len(cmds)
       ELSE (CHOOSE i \in others : \A j \in others : i <= j) - 1

\* queue q is idle and the first command behind its leading Waits is op,
\* with every one of those Waits satisfied
CanRetire(q, op) ==
    LET n == LeadingWaits(queue[q]) IN
    /\ running[q].kind = "none"
    /\ n < Len(queue[q])
    /\ queue[q][n + 1].op = op
    /\ \A i \in 1 .. n : fence[queue[q][i].f] >= queue[q][i].v

NextCmd(q) == queue[q][LeadingWaits(queue[q]) + 1]

Retired(q) ==
    [queue EXCEPT ![q] = SubSeq(@, LeadingWaits(@) + 2, Len(@))]

\* ID3D12CommandQueue::Signal sets the fence to the value
GpuSignal(q) ==
    /\ CanRetire(q, "signal")
    /\ fence' = [fence EXCEPT ![NextCmd(q).f] = NextCmd(q).v]
    /\ queue' = Retired(q)
    /\ UNCHANGED <<envVars, sideVars, particles, render, compute, todo, tick, reconfigs,
                   running, posMem, velMem, localMem, sigLog, tickInfo, copyLog, sampled>>

\* what a reader sees in its source buffer when it begins
InputOf(x) ==
    CASE x.kind = "copy" -> posMem[x.c][x.src]
      [] x.kind = "draw" -> localMem[x.r][x.src]
      [] OTHER           -> NoVer

\* a command list begins executing; overlapping conflicting executions are
\* recorded on the reader
GpuBegin(q) ==
    /\ CanRetire(q, "exec")
    /\ LET x == NextCmd(q).x
           writers == {p \in QueueIds \ {q} : ReadsFrom(x, running[p])}
           started == [x EXCEPT !.in = InputOf(x),
                                !.alt = IF writers = {} THEN NoVer
                                        ELSE Produces(running[CHOOSE p \in writers : TRUE])]
       IN running' = [p \in QueueIds |->
                        IF p = q THEN started
                        ELSE IF ReadsFrom(running[p], x)
                             THEN [running[p] EXCEPT !.alt = Produces(x)]
                             ELSE running[p]]
    /\ queue' = Retired(q)
    /\ UNCHANGED <<envVars, sideVars, particles, render, compute, todo, tick, reconfigs,
                   fence, posMem, velMem, localMem, sigLog, tickInfo, copyLog, sampled>>

\* a command list finishes: its writes land
GpuEnd(q) ==
    /\ running[q].kind # "none"
    /\ LET x == running[q] IN
       \E v \in Outcomes(x) :
         /\ posMem' =
              CASE x.kind = "dispatch" -> [posMem EXCEPT ![x.c][x.dst] = x.tick]
                [] x.kind = "seed"     -> [posMem EXCEPT ![x.c] = [s \in Slots |-> 0]]
                [] x.kind = "copystate" -> [posMem EXCEPT ![x.c] = posMem[x.from]]
                [] x.kind = "vel2pos"  -> [posMem EXCEPT ![x.c] = [s \in Slots |-> Torn]]
                [] x.kind = "resetasync" -> [posMem EXCEPT ![x.c] = localMem[x.r]]
                [] OTHER               -> posMem
         /\ velMem' =
              CASE x.kind = "dispatch" -> [velMem EXCEPT ![x.c].buf[x.dst] = x.tick]
                [] x.kind = "seed"     -> [velMem EXCEPT ![x.c].buf = [s \in Slots |-> 0]]
                [] x.kind = "vel2pos"  -> [velMem EXCEPT ![x.c].heap = velMem[x.c].buf]
                [] x.kind = "velcopy"  -> [velMem EXCEPT ![x.c].buf = velMem[x.from].heap]
                [] OTHER               -> velMem
         /\ localMem' =
              CASE x.kind = "copy"      -> [localMem EXCEPT ![x.r][x.dst] = v]
                [] x.kind = "setshared" -> [localMem EXCEPT ![x.r] = posMem[x.c]]
                [] OTHER                -> localMem
         /\ sampled' = IF x.kind = "draw"
                       THEN [tick |-> x.tick, ver |-> v] ELSE sampled
    /\ running' = [running EXCEPT ![q] = NoWork]
    /\ UNCHANGED <<envVars, sideVars, particles, render, compute, todo, tick, reconfigs,
                   queue, fence, sigLog, tickInfo, copyLog>>

\* one step of one command queue
GpuStep(q) == GpuSignal(q) \/ GpuBegin(q) \/ GpuEnd(q)


\* --------------------------------------------------- ExtensionHelper
\* "desired && m_pExtensionHelper->GetEnabled()": GetEnabled is evaluated only
\* when desired holds; what it may return for a device on adapter a
GetEnabled(a, desired) ==
    IF ~desired THEN {FALSE}
    ELSE IF adapterExt[a] = "unknown" THEN BOOLEAN
    ELSE {adapterExt[a] = "yes"}

\* the adapter's answer is fixed from the first call on
Asked(a, desired, enabled) ==
    IF desired THEN [adapterExt EXCEPT ![a] = IF enabled THEN "yes" ELSE "no"]
    ELSE adapterExt

\* ------------------------------------------------------------- Compute
\* Compute::Compute's initialiser list, then Initialize: the fence is created
\* with m_fenceValue (0), which is then incremented; the extension is used
\* only where the device supports it; m_positionBuffers are the placed
\* resources of the instance's own shared heap ("shared"), of which
\* m_sharedComputeBuffersReference keeps a second reference
NewCompute(adapter, useExt, enabled) ==
    [alive |-> TRUE, adapter |-> adapter,
     m_usingIntelCommandQueueExtension |-> useExt /\ enabled,
     m_fenceValue |-> 1, m_bufferIndex |-> 0,
     m_frameFenceValues |-> [s \in Slots |-> 0],
     m_sharedRenderFence |-> NoId, m_positionBuffers |-> "shared",
     queuesCreated |-> 1, seeded |-> "no"]

DeadCompute ==
    [alive |-> FALSE, adapter |-> NoId,
     m_usingIntelCommandQueueExtension |-> FALSE,
     m_fenceValue |-> 0, m_bufferIndex |-> 0,
     m_frameFenceValues |-> [s \in Slots |-> 0],
     m_sharedRenderFence |-> NoId, m_positionBuffers |-> "none",
     queuesCreated |-> 0, seeded |-> "no"]

\* Compute::WaitForGpu as it would be without "m_fenceValue++"
ComputeWaitForGpu_NoIncrement(c, id) ==
    [obj |-> c,
     cmds |-> <<SignalCmd(<<"compute", id>>, c.m_fenceValue)>>,
     waitFor |-> c.m_fenceValue]

\* Compute::WaitForGpu up to the host wait: Signal(m_fence, m_fenceValue),
\* SetEventOnCompletion(m_fenceValue), m_fenceValue++
ComputeWaitForGpu(c, id) ==
    [obj |-> [c EXCEPT !.m_fenceValue = @ + 1],
     cmds |-> <<SignalCmd(<<"compute", id>>, c.m_fenceValue)>>,
     waitFor |-> c.m_fenceValue]

\* Compute::MoveToNextFrame as it would be if it signaled the fence opened
\* from Render's handle
ComputeMoveToNextFrame_SignalsImported(c, id) ==
    [obj |-> [c EXCEPT !.m_frameFenceValues[c.m_bufferIndex] = c.m_fenceValue,
                       !.m_fenceValue = @ + 1,
                       !.m_bufferIndex = 1 - @],
     cmds |-> <<SignalCmd(<<"copy", c.m_sharedRenderFence>>, c.m_fenceValue)>>]

\* Compute::MoveToNextFrame as it would be without "m_bufferIndex = 1 - m_bufferIndex"
ComputeMoveToNextFrame_NoFlip(c, id) ==
    [obj |-> [c EXCEPT !.m_frameFenceValues[c.m_bufferIndex] = c.m_fenceValue,
                       !.m_fenceValue = @ + 1],
     cmds |-> <<SignalCmd(<<"compute", id>>, c.m_fenceValue)>>]

\* Compute::MoveToNextFrame
ComputeMoveToNextFrame(c, id) ==
    [obj |-> [c EXCEPT !.m_frameFenceValues[c.m_bufferIndex] = c.m_fenceValue,
                       !.m_fenceValue = @ + 1,
                       !.m_bufferIndex = 1 - @],
     cmds |-> <<SignalCmd(<<"compute", id>>, c.m_fenceValue)>>]

\* Compute::Simulate as it would be if it waited for in_sharedFenceValue itself
SimulateWaitValue_Current(in_sharedFenceValue) == in_sharedFenceValue

\* the fence value Compute::Simulate makes the compute queue wait for on the
\* fence imported from Render
SimulateWaitValue(in_sharedFenceValue) == in_sharedFenceValue - 1

\* Compute::Simulate(in_numActiveParticles, in_sharedFenceValue) in tick t
ComputeSimulate(c, id, in_sharedFenceValue, t) ==
    LET oldIndex == c.m_bufferIndex
        newIndex == 1 - oldIndex
        next == ComputeMoveToNextFrame(c, id)
    IN [obj |-> next.obj,
        cmds |-> <<WaitCmd(<<"copy", c.m_sharedRenderFence>>,
                           SimulateWaitValue(in_sharedFenceValue)),
                   ExecCmd(Via(Work("dispatch", t, id, NoId, oldIndex, newIndex),
                               c.m_bufferIndex))>>
                 \o next.cmds,
        newIndex |-> newIndex]

\* Compute::SetAsync(in_fence, in_buffers, in_bufferIndex): the position
\* buffers become the buffers passed in, "render" standing for Render's local
\* buffers.  Compute::ResetFromAsyncHelper is its only caller.
SetAsync(c, in_fence, in_buffers, in_bufferIndex) ==
    [c EXCEPT !.m_sharedRenderFence = in_fence,
              !.m_bufferIndex = 1 - in_bufferIndex,
              !.m_positionBuffers = in_buffers]

\* Compute::ResetFromAsyncHelper as it would be without its early return
ResetFromAsyncHelper_Always(c, id) ==
    LET w == ComputeWaitForGpu(c, id) IN
    [obj |-> SetAsync(w.obj, c.m_sharedRenderFence, "shared", c.m_bufferIndex),
     cmds |-> <<ExecCmd(Via(Work("resetasync", 0, id, c.m_sharedRenderFence, NoId, NoId),
                            c.m_bufferIndex))>>
              \o w.cmds,
     waitFor |-> <<w.waitFor>>]

\* Compute::ResetFromAsyncHelper: returns at once when the position buffers
\* are the instance's own shared buffers; otherwise it copies the position
\* buffers (Render's, whose fence the instance holds) into the shared buffers,
\* executes the list, waits in WaitForGpu, and SetAsync puts the shared
\* buffers back.  waitFor: the fence values the host blocks on, in order.
ResetFromAsyncHelper(c, id) ==
    IF c.m_positionBuffers = "shared"
    THEN [obj |-> c, cmds |-> <<>>, waitFor |-> <<>>]
    ELSE LET w == ComputeWaitForGpu(c, id) IN
         [obj |-> SetAsync(w.obj, c.m_sharedRenderFence, "shared", c.m_bufferIndex),
          cmds |-> <<ExecCmd(Via(Work("resetasync", 0, id, c.m_sharedRenderFence, NoId, NoId),
                            c.m_bufferIndex))>>
                   \o w.cmds,
          waitFor |-> <<w.waitFor>>]

\* Compute::GetSharedHandles(in_fenceHandle): opens Render's fence and
\* publishes the heap, the fence and the current buffer index
GetSharedHandles(c, id, renderId) ==
    [obj |-> [c EXCEPT !.m_sharedRenderFence = renderId],
     handles |-> [m_heap |-> id, m_fence |-> id, m_bufferIndex |-> c.m_bufferIndex]]

\* Compute::SetUseIntelCommandQueueExtension after its WaitForGpu
ComputeSetUseExtension(c, in_desiredSetting, enabled) ==
    LET desired == in_desiredSetting /\ enabled IN
    IF c.m_usingIntelCommandQueueExtension # desired
    THEN [c EXCEPT !.m_usingIntelCommandQueueExtension = desired,
                   !.queuesCreated = @ + 1]
    ELSE c

\* -------------------------------------------------------------- Render
\* Render::Render, CreateCommandQueue, CreateSwapChain and LoadAssets up to
\* its WaitForGpu: the render fence is created with m_renderFenceValue (0),
\* which is then incremented; the copy fence starts at 0.  m_sharedBufferIndex
\* is not initialised by the constructor (u is whatever the member holds).
NewRender(adapter, useExt, fullScreen, u, enabled) ==
    [alive |-> TRUE, adapter |-> adapter, m_fullScreen |-> fullScreen,
     m_usingIntelCommandQueueExtension |-> useExt /\ enabled,
     m_renderFenceValue |-> 1, m_copyFenceValue |-> 0,
     m_currentBufferIndex |-> 0, m_sharedBufferIndex |-> u,
     m_frameIndex |-> 0,
     m_frameFenceValues |-> [s \in 0 .. (NUM_FRAMES - 1) |-> 0],
     m_sharedComputeFence |-> NoId, m_sharedBuffers |-> NoId,
     swapChainsCreated |-> 1]

DeadRender ==
    [alive |-> FALSE, adapter |-> NoId, m_fullScreen |-> FALSE,
     m_usingIntelCommandQueueExtension |-> FALSE,
     m_renderFenceValue |-> 0, m_copyFenceValue |-> 0,
     m_currentBufferIndex |-> 0, m_sharedBufferIndex |-> 0,
     m_frameIndex |-> 0,
     m_frameFenceValues |-> [s \in 0 .. (NUM_FRAMES - 1) |-> 0],
     m_sharedComputeFence |-> NoId, m_sharedBuffers |-> NoId,
     swapChainsCreated |-> 0]

\* Render::WaitForGpu as it would be without the graphics queue's Wait on
\* the copy fence
RenderWaitForGpu_NoCopyWait(r, id) ==
    LET k == r.m_copyFenceValue + 1 IN
    [obj |-> [r EXCEPT !.m_copyFenceValue = k, !.m_renderFenceValue = @ + 1],
     copy |-> <<SignalCmd(<<"copy", id>>, k)>>,
     gfx |-> <<SignalCmd(<<"render", id>>, r.m_renderFenceValue)>>,
     waitFor |-> r.m_renderFenceValue]

\* Render::WaitForGpu up to the host wait
RenderWaitForGpu(r, id) ==
    LET k == r.m_copyFenceValue + 1 IN
    [obj |-> [r EXCEPT !.m_copyFenceValue = k, !.m_renderFenceValue = @ + 1],
     copy |-> <<SignalCmd(<<"copy", id>>, k)>>,
     gfx |-> <<WaitCmd(<<"copy", id>>, k),
               SignalCmd(<<"render", id>>, r.m_renderFenceValue)>>,
     waitFor |-> r.m_renderFenceValue]

\* Render::MoveToNextFrame as it would be without "m_renderFenceValue++"
RenderMoveToNextFrame_NoIncrement(r, id, completed) ==
    LET frameIndex == (r.m_frameIndex + 1) % NUM_FRAMES
        values == [r.m_frameFenceValues EXCEPT ![r.m_frameIndex] = r.m_renderFenceValue]
    IN [obj |-> [r EXCEPT !.m_frameFenceValues = values,
                          !.m_frameIndex = frameIndex],
        gfx |-> <<SignalCmd(<<"render", id>>, r.m_renderFenceValue)>>,
        handle |-> IF completed < values[frameIndex] THEN values[frameIndex] ELSE 0]

\* Render::MoveToNextFrame; completed is m_renderFence->GetCompletedValue().
\* GetCurrentBackBufferIndex advances by one back buffer after each Present.
RenderMoveToNextFrame(r, id, completed) ==
    LET frameIndex == (r.m_frameIndex + 1) % NUM_FRAMES
        values == [r.m_frameFenceValues EXCEPT ![r.m_frameIndex] = r.m_renderFenceValue]
    IN [obj |-> [r EXCEPT !.m_frameFenceValues = values,
                          !.m_renderFenceValue = @ + 1,
                          !.m_frameIndex = frameIndex],
        gfx |-> <<SignalCmd(<<"render", id>>, r.m_renderFenceValue)>>,
        handle |-> IF completed < values[frameIndex] THEN values[frameIndex] ELSE 0]

\* the slot of the shared heap CopySimulationResults reads
SrcSharedIndex(r) == 1 - r.m_sharedBufferIndex

\* CopySimulationResults as it would be without the Wait on the compute fence
CopyCommands_NoComputeWait(r, id, in_fenceValue, x) ==
    <<WaitCmd(<<"render", id>>, r.m_renderFenceValue - 1),
      ExecCmd(x),
      SignalCmd(<<"copy", id>>, r.m_copyFenceValue + 1)>>

\* CopySimulationResults as it would be without the Wait on the render fence
CopyCommands_NoRenderWait(r, id, in_fenceValue, x) ==
    <<ExecCmd(x),
      WaitCmd(<<"compute", r.m_sharedComputeFence>>, in_fenceValue),
      SignalCmd(<<"copy", id>>, r.m_copyFenceValue + 1)>>

\* the commands CopySimulationResults submits to the copy queue
CopyCommands(r, id, in_fenceValue, x) ==
    <<WaitCmd(<<"render", id>>, r.m_renderFenceValue - 1),
      ExecCmd(x),
      WaitCmd(<<"compute", r.m_sharedComputeFence>>, in_fenceValue),
      SignalCmd(<<"copy", id>>, r.m_copyFenceValue + 1)>>

\* CopySimulationResults as it would be if it recorded every copy through the
\* first copy allocator
CopyAllocator_First(r) == r.m_frameIndex - r.m_frameIndex

\* "m_copyAllocators[m_frameIndex]->Reset(); m_copyList->Reset(...)": the
\* allocator a tick's copy list is recorded through
CopyAllocator(r) == r.m_frameIndex

\* Render::CopySimulationResults(in_fenceValue, in_numActiveParticles) in tick t
CopySimulationResults(r, id, in_fenceValue, t) ==
    LET srcSharedIndex == SrcSharedIndex(r)
        dstLocalIndex == 1 - r.m_currentBufferIndex
        x == Via(Work("copy", t, r.m_sharedBuffers, id, srcSharedIndex, dstLocalIndex),
                 CopyAllocator(r))
    IN [obj |-> [r EXCEPT !.m_sharedBufferIndex = 1 - @,
                          !.m_copyFenceValue = @ + 1],
        copy |-> CopyCommands(r, id, in_fenceValue, x),
        srcSharedIndex |-> srcSharedIndex,
        dstLocalIndex |-> dstLocalIndex]

\* Render::Draw as it would be without the Wait on the copy fence
DrawTrailingWait_None(r, id) == <<>>

\* the queue-level wait Render::Draw submits after Present
DrawTrailingWait(r, id) == <<WaitCmd(<<"copy", id>>, r.m_copyFenceValue)>>

\* Render::Draw as it would be if it reported the copy-fence value it found
\* on entry
DrawFenceValue_BeforeCopy(r) == r.m_copyFenceValue - 1

\* "inout_fenceValue = m_copyFenceValue" at the end of Render::Draw
DrawFenceValue(r) == r.m_copyFenceValue

\* the kinds of the command lists among cmds, in submission order
ExecKinds(cmds) ==
    LET sel == SelectSeq(cmds, LAMBDA c : c.op = "exec")
    IN [i \in 1 .. Len(sel) |-> sel[i].x.kind]

\* Render::Draw(in_numActiveParticles, in_pParticles, inout_fenceValue,
\* in_numParticlesCopied) in tick t
RenderDraw(r, id, inout_fenceValue, t, completed) ==
    LET cp == CopySimulationResults(r, id, inout_fenceValue, t)
        r1 == cp.obj
        sampledIndex == r1.m_currentBufferIndex
        r2 == [r1 EXCEPT !.m_currentBufferIndex = 1 - @]
        next == RenderMoveToNextFrame(r2, id, completed)
        gfx == <<ExecCmd(Via(Work("draw", t, NoId, id, sampledIndex, NoId),
                                r.m_frameIndex))>>
               \o DrawTrailingWait(r2, id) \o next.gfx
    IN [obj |-> next.obj,
        copy |-> cp.copy,
        gfx |-> gfx,
        fenceValue |-> DrawFenceValue(r2),
        handle |-> next.handle,
        order |-> ExecKinds(cp.copy) \o ExecKinds(gfx),
        srcSharedIndex |-> cp.srcSharedIndex,
        dstLocalIndex |-> cp.dstLocalIndex,
        sampledIndex |-> sampledIndex]

\* Render::SetShared(in_sharedHandles) up to its WaitForGpu: imports the heap
\* and the compute fence, copies both shared slots into the local buffers on
\* the direct queue
SetShared(r, id, h) ==
    [obj |-> [r EXCEPT !.m_sharedBufferIndex = h.m_bufferIndex,
                       !.m_sharedBuffers = h.m_heap,
                       !.m_sharedComputeFence = h.m_fence],
     gfx |-> <<ExecCmd(Via(Work("setshared", 0, h.m_heap, id, NoId, NoId),
                           r.m_frameIndex))>>]

\* ----------------------------------------------------------- Particles
\* Particles::AssignAdapters: the last UMA adapter computes, the last other
\* adapter renders; if that leaves both on one index, first and last.
\* uma[a]: CheckFeatureSupport(D3D12_FEATURE_ARCHITECTURE) reports UMA for a
AssignAdapters(uma) ==
    LET umas == {a \in Adapters : uma[a]}
        others == Adapters \ umas
        Max(S) == CHOOSE a \in S : \A b \in S : b <= a
        c == IF umas = {} THEN 0 ELSE Max(umas)
        r == IF others = {} THEN 0 ELSE Max(others)
    IN IF c = r THEN [compute |-> 0, render |-> NumAdapters - 1]
       ELSE [compute |-> c, render |-> r]


\* ------------------------------------------------------ the host thread
\* a step of the host's continuation: a code segment that runs up to the
\* next blocking wait ("HostWait": block until fence f has reached v)
St(s) == [s |-> s, f |-> NoFence, v |-> 0]
Block(f, v) == [s |-> "HostWait", f |-> f, v |-> v]

AtStep(s) == todo # <<>> /\ Head(todo).s = s

\* the values passed to Signal on fence f by the commands cmds
SigValues(cmds, f) ==
    LET sel == SelectSeq(cmds, LAMBDA c : c.op = "signal" /\ c.f = f)
    IN [i \in 1 .. Len(sel) |-> sel[i].v]

\* the host submits copyCmds / gfxCmds to Render rid's queues and
\* computeCmds to Compute cid's queue
Submit(rid, copyCmds, gfxCmds, cid, computeCmds) ==
    /\ queue' = [q \in QueueIds |->
                   queue[q] \o (IF q = <<"copy", rid>> THEN copyCmds
                                ELSE IF q = <<"gfx", rid>> THEN gfxCmds
                                ELSE IF q = <<"compute", cid>> THEN computeCmds
                                ELSE <<>>)]
    /\ sigLog' = [f \in FenceIds |->
                   sigLog[f] \o SigValues(copyCmds \o gfxCmds \o computeCmds, f)]

\* the outgoing Compute instance of a tick's compute swap as it was when the
\* swap began: its id, its m_bufferIndex and the contents of its buffers
NoSwap ==
    [cid |-> NoId, m_bufferIndex |-> 0,
     pos |-> [s \in Slots |-> NoVer], vel |-> [s \in Slots |-> NoVer]]

NoTickInfo ==
    [tick |-> 0, changed |-> FALSE, simulated |-> FALSE,
     srcSharedIndex |-> NoId, dstLocalIndex |-> NoId, sampledIndex |-> NoId,
     bufferIndexAtCopy |-> NoId, newIndex |-> NoId,
     renderFenceValueBefore |-> 0, renderSignalsBefore |-> 0,
     waits |-> <<>>, drains |-> <<>>,
     order |-> <<>>, copySignal |-> 0, simFenceValue |-> 0,
     swapFrom |-> NoSwap]

\* Particles::Draw as it would be if only a change of adapter drained the queues
AnythingChanged_AdaptersOnly(p) ==
    \/ p.prevRenderAdapterIndex # p.m_renderAdapterIndex
    \/ p.prevComputeAdapterIndex # p.m_computeAdapterIndex

\* "if anything changed that might result in an adapter being removed, drain
\* all the pipelines": the condition of Particles::Draw
AnythingChanged(p) ==
    \/ p.prevRenderAdapterIndex # p.m_renderAdapterIndex
    \/ p.prevComputeAdapterIndex # p.m_computeAdapterIndex
    \/ p.prevQueueExtension # p.m_commandQueueExtensionEnabled
    \/ p.prevFullScreen # p.m_fullScreen

\* Render::UpdateCamera (USE_LATENCY_WAITABLE is 1): the host waits on the swap
\* chain's frame-latency waitable object for at most 1000 ms; the wait returns
\* on its own when the time is up, whatever the queues have done
UpdateCamera == [on |-> "m_swapChainEvent", timeout |-> "1000"]

\* Particles::Draw as it would be if it waited on drawHandle without testing it
DrawHostWait_Always(rid, drawHandle) ==
    [steps |-> <<Block(<<"render", rid>>, drawHandle)>>,
     waits |-> <<[on |-> "m_renderFenceEvent", timeout |-> "INFINITE"]>>]

\* Particles::Draw as it would be without the wait on drawHandle
DrawHostWait_Never(rid, drawHandle) == [steps |-> <<>>, waits |-> <<>>]

\* "if (drawHandle) WaitForSingleObjectEx(drawHandle, INFINITE, FALSE)": the
\* handle is Render's m_renderFenceEvent, armed by MoveToNextFrame for the
\* fence value drawHandle stands for
DrawHostWait(rid, drawHandle) ==
    IF drawHandle # 0
    THEN [steps |-> <<Block(<<"render", rid>>, drawHandle)>>,
          waits |-> <<[on |-> "m_renderFenceEvent", timeout |-> "INFINITE"]>>]
    ELSE [steps |-> <<>>, waits |-> <<>>]

\* Particles::Particles after adapter enumeration: AssignAdapters, then
\* new Render, new Compute, ShareHandles and the extension flag
ParticlesCtor ==
    /\ AtStep("ParticlesCtor")
    /\ \E uma \in [Adapters -> BOOLEAN] :
        LET a == AssignAdapters(uma)
        IN particles' = [particles EXCEPT !.m_renderAdapterIndex = a.render,
                                          !.m_computeAdapterIndex = a.compute]
    /\ todo' = <<St("NewRender"), St("NewCompute"), St("InitializeParticles"),
                 St("ComputeCtorEnd"), St("AssignCompute"), St("ShareHandles"),
                 St("CtorFinish")>> \o Tail(todo)
    /\ UNCHANGED <<envVars, sideVars, render, compute, tick, reconfigs, gpuVars, sigLog,
                   tickInfo, copyLog>>

\* m_pRender = new Render(...): constructor and LoadAssets up to the wait of
\* its WaitForGpu
NewRenderStep ==
    /\ AtStep("NewRender")
    /\ \E u \in Slots, enabled \in GetEnabled(particles.m_renderAdapterIndex,
                                               particles.m_commandQueueExtensionEnabled) :
        LET id == particles.nextRenderId
            r0 == NewRender(particles.m_renderAdapterIndex,
                            particles.m_commandQueueExtensionEnabled,
                            particles.m_fullScreen, u, enabled)
            w == RenderWaitForGpu(r0, id)
        IN /\ adapterExt' = Asked(particles.m_renderAdapterIndex,
                                  particles.m_commandQueueExtensionEnabled, enabled)
           /\ particles' = [particles EXCEPT !.m_pRender = id, !.nextRenderId = @ + 1]
           /\ render' = [render EXCEPT ![id] = w.obj]
           /\ Submit(id, w.copy, w.gfx, NoId, <<>>)
           /\ todo' = <<Block(<<"render", id>>, w.waitFor)>> \o Tail(todo)
    /\ UNCHANGED <<sideVars, compute, tick, reconfigs, running, fence, posMem, velMem,
                   localMem, tickInfo, copyLog, sampled>>

\* a blocking host wait (WaitForSingleObject on a fence event) returns
HostWait ==
    /\ AtStep("HostWait")
    /\ fence[Head(todo).f] >= Head(todo).v
    /\ todo' = Tail(todo)
    /\ UNCHANGED <<envVars, sideVars, particles, render, compute, tick, reconfigs, gpuVars,
                   sigLog, tickInfo, copyLog>>

\* new Compute(...): the constructor's initialiser list and Initialize up to
\* its WaitForGpu.  During the constructor m_pCompute still names the old
\* instance; the new one is particles.pNewCompute.
NewComputeStep ==
    /\ AtStep("NewCompute")
    /\ \E enabled \in GetEnabled(particles.m_computeAdapterIndex,
                                 particles.m_commandQueueExtensionEnabled) :
        LET id == particles.nextComputeId
            c0 == NewCompute(particles.m_computeAdapterIndex,
                             particles.m_commandQueueExtensionEnabled, enabled)
            w == ComputeWaitForGpu(c0, id)
        IN /\ adapterExt' = Asked(particles.m_computeAdapterIndex,
                                  particles.m_commandQueueExtensionEnabled, enabled)
           /\ particles' = [particles EXCEPT !.pNewCompute = id, !.nextComputeId = @ + 1]
           /\ compute' = [compute EXCEPT ![id] = w.obj]
           /\ Submit(NoId, <<>>, <<>>, id, w.cmds)
           /\ todo' = <<Block(<<"compute", id>>, w.waitFor)>> \o Tail(todo)
    /\ UNCHANGED <<sideVars, render, tick, reconfigs, running, fence, posMem, velMem,
                   localMem, tickInfo, copyLog, sampled>>

\* Compute::InitializeParticles: uploads the same random positions into both
\* slots, then WaitForGpu
InitializeParticles ==
    /\ AtStep("InitializeParticles")
    /\ LET id == particles.pNewCompute
           w == ComputeWaitForGpu(compute[id], id)
       IN /\ compute' = [compute EXCEPT ![id] = [w.obj EXCEPT !.seeded = "random"]]
          /\ Submit(NoId, <<>>, <<>>, id,
                    <<ExecCmd(Via(Work("seed", 0, id, NoId, NoId, NoId),
                                  compute[id].m_bufferIndex))>> \o w.cmds)
          /\ todo' = <<Block(<<"compute", id>>, w.waitFor)>> \o Tail(todo)
    /\ UNCHANGED <<envVars, sideVars, particles, render, tick, reconfigs, running, fence,
                   posMem, velMem, localMem, tickInfo, copyLog, sampled>>

\* the WaitForGpu that ends Compute::Compute
ComputeCtorEnd ==
    /\ AtStep("ComputeCtorEnd")
    /\ LET id == particles.pNewCompute
           w == ComputeWaitForGpu(compute[id], id)
       IN /\ compute' = [compute EXCEPT ![id] = w.obj]
          /\ Submit(NoId, <<>>, <<>>, id, w.cmds)
          /\ todo' = <<Block(<<"compute", id>>, w.waitFor)>> \o Tail(todo)
    /\ UNCHANGED <<envVars, sideVars, particles, render, tick, reconfigs, running, fence,
                   posMem, velMem, localMem, tickInfo, copyLog, sampled>>

\* m_pCompute = new Compute(...): the constructor has returned
AssignCompute ==
    /\ AtStep("AssignCompute")
    /\ particles' = [particles EXCEPT !.pOldCompute = particles.m_pCompute,
                                      !.m_pCompute = particles.pNewCompute,
                                      !.pNewCompute = NoId]
    /\ todo' = Tail(todo)
    /\ UNCHANGED <<envVars, sideVars, render, compute, tick, reconfigs, gpuVars, sigLog,
                   tickInfo, copyLog>>

\* Particles::ShareHandles: Compute::GetSharedHandles(render's fence handle),
\* then Render::SetShared up to the wait of its WaitForGpu
ShareHandles ==
    /\ AtStep("ShareHandles")
    /\ LET rid == particles.m_pRender
           cid == particles.m_pCompute
           g == GetSharedHandles(compute[cid], cid, rid)
           sh == SetShared(render[rid], rid, g.handles)
           w == RenderWaitForGpu(sh.obj, rid)
       IN /\ compute' = [compute EXCEPT ![cid] = g.obj]
          /\ render' = [render EXCEPT ![rid] = w.obj]
          /\ Submit(rid, w.copy, sh.gfx \o w.gfx, NoId, <<>>)
          /\ todo' = <<Block(<<"render", rid>>, w.waitFor)>> \o Tail(todo)
    /\ UNCHANGED <<envVars, sideVars, particles, tick, reconfigs, running, fence, posMem, velMem,
                   localMem, tickInfo, copyLog, sampled>>

\* the end of Particles::Particles: the extension flag reported upward
CtorFinish ==
    /\ AtStep("CtorFinish")
    /\ particles' = [particles EXCEPT !.m_commandQueueExtensionEnabled =
           \/ compute[particles.m_pCompute].m_usingIntelCommandQueueExtension
           \/ render[particles.m_pRender].m_usingIntelCommandQueueExtension]
    /\ todo' = <<St("Draw")>> \o Tail(todo)
    /\ UNCHANGED <<envVars, sideVars, render, compute, tick, reconfigs, gpuVars, sigLog,
                   tickInfo, copyLog>>


\* ------------------------------------------------------ Particles::Draw
\* what the GUI (DrawGUI, called inside Render::Draw) may leave in the two
\* adapter list boxes and the two check boxes: the pointer activates at most
\* one widget in an ImGui frame
GuiChoices ==
    LET now == [ra |-> particles.m_renderAdapterIndex,
                ca |-> particles.m_computeAdapterIndex,
                ext |-> particles.m_commandQueueExtensionEnabled,
                fs |-> particles.m_fullScreen]
    IN {now} \cup
       (IF reconfigs < MaxReconfigs
        THEN {[now EXCEPT !.ra = a] : a \in Adapters}
             \cup {[now EXCEPT !.ca = a] : a \in Adapters}
             \cup {[now EXCEPT !.ext = ~@], [now EXCEPT !.fs = ~@]}
        ELSE {})

\* Particles::Draw up to and including m_pRender->Draw(...), which begins
\* with UpdateCamera's timed wait
Draw ==
    /\ AtStep("Draw")
    /\ \E g \in GuiChoices :
        LET rid == particles.m_pRender
            cid == particles.m_pCompute
            renderSharedFenceValue == compute[cid].m_fenceValue
            d == RenderDraw(render[rid], rid, renderSharedFenceValue, tick + 1,
                            fence[<<"render", rid>>])
            changed == \/ g.ra # particles.m_renderAdapterIndex
                       \/ g.ca # particles.m_computeAdapterIndex
                       \/ g.ext # particles.m_commandQueueExtensionEnabled
                       \/ g.fs # particles.m_fullScreen
        IN /\ particles' = [particles EXCEPT
                 !.prevRenderAdapterIndex = particles.m_renderAdapterIndex,
                 !.prevComputeAdapterIndex = particles.m_computeAdapterIndex,
                 !.prevQueueExtension = particles.m_commandQueueExtensionEnabled,
                 !.prevFullScreen = particles.m_fullScreen,
                 !.m_renderAdapterIndex = g.ra,
                 !.m_computeAdapterIndex = g.ca,
                 !.m_commandQueueExtensionEnabled = g.ext,
                 !.m_fullScreen = g.fs,
                 !.renderSharedFenceValue = d.fenceValue,
                 !.drawHandle = d.handle]
           /\ render' = [render EXCEPT ![rid] = d.obj]
           /\ Submit(rid, d.copy, d.gfx, NoId, <<>>)
           /\ reconfigs' = IF changed THEN reconfigs + 1 ELSE reconfigs
           /\ tickInfo' = [tick |-> tick + 1, changed |-> changed, simulated |-> FALSE,
                           srcSharedIndex |-> d.srcSharedIndex,
                           dstLocalIndex |-> d.dstLocalIndex,
                           sampledIndex |-> d.sampledIndex,
                           bufferIndexAtCopy |-> compute[cid].m_bufferIndex,
                           newIndex |-> NoId,
                           renderFenceValueBefore |-> render[rid].m_renderFenceValue,
                           renderSignalsBefore |-> Len(sigLog[<<"render", rid>>]),
                           waits |-> <<UpdateCamera>>, drains |-> <<>>,
                           order |-> d.order,
                           copySignal |->
                               LET sv == SigValues(d.copy, <<"copy", rid>>)
                               IN sv[Len(sv)],
                           simFenceValue |-> 0,
                           swapFrom |-> NoSwap]
           /\ copyLog' = Append(copyLog,
                 [tick |-> tick + 1, rid |-> rid, k |-> d.fenceValue,
                  cid |-> render[rid].m_sharedComputeFence,
                  cv |-> renderSharedFenceValue,
                  rv |-> SigValues(d.gfx, <<"render", rid>>)[1]])
    /\ tick' = tick + 1
    /\ todo' = <<St("Simulate")>> \o Tail(todo)
    /\ UNCHANGED <<envVars, sideVars, compute, running, fence, posMem, velMem, localMem, sampled>>

\* m_pCompute->Simulate(m_numParticlesSimulated, renderSharedFenceValue); the
\* host then waits on the handle Draw returned, if any
Simulate ==
    /\ AtStep("Simulate")
    /\ LET cid == particles.m_pCompute
           sim == ComputeSimulate(compute[cid], cid, particles.renderSharedFenceValue, tick)
           hw == DrawHostWait(particles.m_pRender, particles.drawHandle)
       IN /\ compute' = [compute EXCEPT ![cid] = sim.obj]
          /\ Submit(NoId, <<>>, <<>>, cid, sim.cmds)
          /\ tickInfo' = [tickInfo EXCEPT !.simulated = TRUE, !.newIndex = sim.newIndex,
                                          !.waits = @ \o hw.waits,
                                          !.order = @ \o ExecKinds(sim.cmds)
                                              \o [i \in 1 .. Len(hw.steps) |-> "hostwait"],
                                          !.simFenceValue = particles.renderSharedFenceValue]
          /\ todo' = hw.steps \o <<St("AfterWait")>> \o Tail(todo)
    /\ UNCHANGED <<envVars, sideVars, particles, render, tick, reconfigs, running, fence,
                   posMem, velMem, localMem, copyLog, sampled>>

\* after the per-frame wait: if a setting changed, drain the pipelines,
\* starting with m_pRender->WaitForGpu(), and go on to the GUI changes; if the
\* GUI changed nothing, none of the conditions below holds, Particles::Draw
\* returns and the message loop calls it again
AfterWait ==
    /\ AtStep("AfterWait")
    /\ LET rid == particles.m_pRender
           w == RenderWaitForGpu(render[rid], rid)
           rest == (IF tickInfo.changed
                    THEN <<St("GuiRender"), St("GuiCompute"), St("GuiExt"), St("TickEnd")>>
                    ELSE IF tick < MaxTicks THEN <<St("Draw")>> ELSE <<St("~Particles")>>)
                   \o Tail(todo)
       IN IF AnythingChanged(particles)
          THEN /\ render' = [render EXCEPT ![rid] = w.obj]
               /\ Submit(rid, w.copy, w.gfx, NoId, <<>>)
               /\ tickInfo' = [tickInfo EXCEPT !.drains =
                                 Append(@, [f |-> <<"render", rid>>, v |-> w.waitFor])]
               /\ todo' = <<Block(<<"render", rid>>, w.waitFor), St("DrainCompute")>>
                          \o rest
          ELSE /\ todo' = rest
               /\ UNCHANGED <<render, queue, sigLog, tickInfo>>
    /\ UNCHANGED <<envVars, sideVars, particles, compute, tick, reconfigs, running, fence,
                   posMem, velMem, localMem, copyLog, sampled>>

\* m_pCompute->WaitForGpu() of the drain
DrainCompute ==
    /\ AtStep("DrainCompute")
    /\ LET cid == particles.m_pCompute
           w == ComputeWaitForGpu(compute[cid], cid)
       IN /\ compute' = [compute EXCEPT ![cid] = w.obj]
          /\ Submit(NoId, <<>>, <<>>, cid, w.cmds)
          /\ tickInfo' = [tickInfo EXCEPT !.drains =
                            Append(@, [f |-> <<"compute", cid>>, v |-> w.waitFor])]
          /\ todo' = <<Block(<<"compute", cid>>, w.waitFor)>> \o Tail(todo)
    /\ UNCHANGED <<envVars, sideVars, particles, render, tick, reconfigs, running, fence,
                   posMem, velMem, localMem, copyLog, sampled>>

\* Particles::Draw returns after handling GUI changes; the message loop
\* calls it again or, on WM_QUIT, ends and the Particles object is destroyed
TickEnd ==
    /\ AtStep("TickEnd")
    /\ todo' = (IF tick < MaxTicks THEN <<St("Draw")>> ELSE <<St("~Particles")>>)
               \o Tail(todo)
    /\ UNCHANGED <<envVars, sideVars, particles, render, compute, tick, reconfigs, gpuVars,
                   sigLog, tickInfo, copyLog>>


\* ------------------------------------------- Particles::Draw, GUI changes
\* "new render device?": the condition, then ~Render up to the wait of its
\* WaitForGpu
GuiRender ==
    /\ AtStep("GuiRender")
    /\ LET rid == particles.m_pRender
           w == RenderWaitForGpu(render[rid], rid)
           changed == \/ particles.prevRenderAdapterIndex # particles.m_renderAdapterIndex
                      \/ particles.prevFullScreen # particles.m_fullScreen
           asks == /\ ~changed
                   /\ particles.prevQueueExtension # particles.m_commandQueueExtensionEnabled
       IN \E supports \in GetEnabled(render[rid].adapter, asks) :
          /\ adapterExt' = Asked(render[rid].adapter, asks, supports)
          /\ IF changed \/ supports
             THEN /\ render' = [render EXCEPT ![rid] = w.obj]
                  /\ Submit(rid, w.copy, w.gfx, NoId, <<>>)
                  /\ todo' = <<Block(<<"render", rid>>, w.waitFor), St("DeleteRender"),
                               St("NewRender"), St("ShareHandles")>> \o Tail(todo)
             ELSE /\ todo' = Tail(todo)
                  /\ UNCHANGED <<render, queue, sigLog>>
    /\ UNCHANGED <<sideVars, particles, compute, tick, reconfigs, running, fence,
                   posMem, velMem, localMem, tickInfo, copyLog, sampled>>

\* the rest of ~Render: its queues, fences and buffers are released
DeleteRender ==
    /\ AtStep("DeleteRender")
    /\ render' = [render EXCEPT ![particles.m_pRender] = DeadRender]
    /\ todo' = Tail(todo)
    /\ UNCHANGED <<envVars, sideVars, particles, compute, tick, reconfigs, gpuVars, sigLog,
                   tickInfo, copyLog>>

\* the compute swap as it would be if the new Compute were constructed without
\* in_pCompute
ComputeSwapSteps_Reseed ==
    <<St("NewCompute"), St("InitializeParticles"),
      St("ComputeCtorEnd"), St("AssignCompute"),
      St("DeleteOldCompute"), St("OldComputeGone"),
      St("ShareHandles"), St("AfterComputeSwap")>>

\* the compute swap as it would be if CopyState staged the old velocities
\* before it copied the positions out
ComputeSwapSteps_VelocityFirst ==
    <<St("NewCompute"), St("CopyStateOldVelocity"),
      St("CopyStatePositions"), St("CopyStateVelocity"),
      St("ComputeCtorEnd"), St("AssignCompute"),
      St("DeleteOldCompute"), St("OldComputeGone"),
      St("ShareHandles"), St("AfterComputeSwap")>>

\* the compute swap as it would be without its call of ShareHandles
ComputeSwapSteps_NoShareHandles ==
    <<St("NewCompute"), St("CopyStatePositions"),
      St("CopyStateOldVelocity"), St("CopyStateVelocity"),
      St("ComputeCtorEnd"), St("AssignCompute"),
      St("DeleteOldCompute"), St("OldComputeGone"),
      St("AfterComputeSwap")>>

\* the body of "if (prevComputeAdapterIndex != m_computeAdapterIndex)": new
\* Compute(..., pOldCompute) with CopyState, delete pOldCompute, ShareHandles,
\* the extension flag
ComputeSwapSteps ==
    <<St("NewCompute"), St("CopyStatePositions"),
      St("CopyStateOldVelocity"), St("CopyStateVelocity"),
      St("ComputeCtorEnd"), St("AssignCompute"),
      St("DeleteOldCompute"), St("OldComputeGone"),
      St("ShareHandles"), St("AfterComputeSwap")>>

\* "if (prevComputeAdapterIndex != m_computeAdapterIndex)"
GuiCompute ==
    /\ AtStep("GuiCompute")
    /\ LET old == particles.m_pCompute IN
       IF particles.prevComputeAdapterIndex # particles.m_computeAdapterIndex
       THEN /\ todo' = ComputeSwapSteps \o Tail(todo)
            /\ tickInfo' = [tickInfo EXCEPT !.swapFrom =
                   [cid |-> old, m_bufferIndex |-> compute[old].m_bufferIndex,
                    pos |-> posMem[old], vel |-> velMem[old].buf]]
       ELSE /\ todo' = Tail(todo)
            /\ UNCHANGED tickInfo
    /\ UNCHANGED <<envVars, sideVars, particles, render, compute, tick, reconfigs, gpuVars,
                   sigLog, copyLog>>

\* Compute::CopyState, first block: ResetFromAsyncHelper of the old instance
\* returns at once (its buffers are its own shared buffers); the new queue
\* copies both position slots out of the old instance's heap; WaitForGpu
CopyStatePositions ==
    /\ AtStep("CopyStatePositions")
    /\ LET id == particles.pNewCompute
           old == particles.m_pCompute
           reset == ResetFromAsyncHelper(compute[old], old)
           w == ComputeWaitForGpu(compute[id], id)
       IN IF reset.waitFor # <<>>
          THEN \* the old instance leaves async mode first; CopyState goes on
               \* when the host wait of its WaitForGpu has returned
               /\ compute' = [compute EXCEPT ![old] = reset.obj]
               /\ Submit(NoId, <<>>, <<>>, old, reset.cmds)
               /\ todo' = <<Block(<<"compute", old>>, reset.waitFor[1])>> \o todo
          ELSE /\ compute' = [compute EXCEPT ![id] = [w.obj EXCEPT !.seeded = "copied"],
                                             ![old] = reset.obj]
               /\ Submit(NoId, <<>>, <<>>, id,
                         reset.cmds \o <<ExecCmd(Via(WorkFrom("copystate", id, old),
                                                     compute[id].m_bufferIndex))>>
                         \o w.cmds)
               /\ todo' = <<Block(<<"compute", id>>, w.waitFor)>> \o Tail(todo)
    /\ UNCHANGED <<envVars, sideVars, particles, render, tick, reconfigs, running, fence,
                   posMem, velMem, localMem, tickInfo, copyLog, sampled>>

\* Compute::CopyState, second block: the old queue copies its velocity
\* buffers over its shared position buffers; in_pCompute->WaitForGpu()
CopyStateOldVelocity ==
    /\ AtStep("CopyStateOldVelocity")
    /\ LET old == particles.m_pCompute
           w == ComputeWaitForGpu(compute[old], old)
       IN /\ compute' = [compute EXCEPT ![old] = w.obj]
          /\ Submit(NoId, <<>>, <<>>, old,
                    <<ExecCmd(Via(WorkFrom("vel2pos", old, NoId),
                                  compute[particles.pNewCompute].m_bufferIndex))>>
                    \o w.cmds)
          /\ todo' = <<Block(<<"compute", old>>, w.waitFor)>> \o Tail(todo)
    /\ UNCHANGED <<envVars, sideVars, particles, render, tick, reconfigs, running, fence,
                   posMem, velMem, localMem, tickInfo, copyLog, sampled>>

\* Compute::CopyState, third block: the new queue copies the velocities out
\* of the old heap into its velocity buffers; WaitForGpu
CopyStateVelocity ==
    /\ AtStep("CopyStateVelocity")
    /\ LET id == particles.pNewCompute
           old == particles.m_pCompute
           w == ComputeWaitForGpu(compute[id], id)
       IN /\ compute' = [compute EXCEPT ![id] = w.obj]
          /\ Submit(NoId, <<>>, <<>>, id,
                    <<ExecCmd(Via(WorkFrom("velcopy", id, old),
                                  compute[id].m_bufferIndex))>> \o w.cmds)
          /\ todo' = <<Block(<<"compute", id>>, w.waitFor)>> \o Tail(todo)
    /\ UNCHANGED <<envVars, sideVars, particles, render, tick, reconfigs, running, fence,
                   posMem, velMem, localMem, tickInfo, copyLog, sampled>>

\* delete pOldCompute: ~Compute up to the wait of its WaitForGpu
DeleteOldCompute ==
    /\ AtStep("DeleteOldCompute")
    /\ LET old == particles.pOldCompute
           w == ComputeWaitForGpu(compute[old], old)
       IN /\ compute' = [compute EXCEPT ![old] = w.obj]
          /\ Submit(NoId, <<>>, <<>>, old, w.cmds)
          /\ todo' = <<Block(<<"compute", old>>, w.waitFor)>> \o Tail(todo)
    /\ UNCHANGED <<envVars, sideVars, particles, render, tick, reconfigs, running, fence,
                   posMem, velMem, localMem, tickInfo, copyLog, sampled>>

\* the rest of ~Compute
OldComputeGone ==
    /\ AtStep("OldComputeGone")
    /\ compute' = [compute EXCEPT ![particles.pOldCompute] = DeadCompute]
    /\ particles' = [particles EXCEPT !.pOldCompute = NoId]
    /\ todo' = Tail(todo)
    /\ UNCHANGED <<envVars, sideVars, render, tick, reconfigs, gpuVars, sigLog, tickInfo, copyLog>>

\* m_commandQueueExtensionEnabled = m_pCompute->GetUsingIntelCommandQueueExtension()
AfterComputeSwap ==
    /\ AtStep("AfterComputeSwap")
    /\ particles' = [particles EXCEPT !.m_commandQueueExtensionEnabled =
           compute[particles.m_pCompute].m_usingIntelCommandQueueExtension]
    /\ todo' = Tail(todo)
    /\ UNCHANGED <<envVars, sideVars, render, compute, tick, reconfigs, gpuVars, sigLog,
                   tickInfo, copyLog>>

\* "if (prevQueueExtension != m_commandQueueExtensionEnabled)":
\* Compute::SetUseIntelCommandQueueExtension up to the wait of its WaitForGpu
GuiExt ==
    /\ AtStep("GuiExt")
    /\ LET cid == particles.m_pCompute
           w == ComputeWaitForGpu(compute[cid], cid)
       IN IF particles.prevQueueExtension # particles.m_commandQueueExtensionEnabled
          THEN /\ compute' = [compute EXCEPT ![cid] = w.obj]
               /\ Submit(NoId, <<>>, <<>>, cid, w.cmds)
               /\ todo' = <<Block(<<"compute", cid>>, w.waitFor), St("SetUseExtension")>>
                          \o Tail(todo)
          ELSE /\ todo' = Tail(todo)
               /\ UNCHANGED <<compute, queue, sigLog>>
    /\ UNCHANGED <<envVars, sideVars, particles, render, tick, reconfigs, running, fence,
                   posMem, velMem, localMem, tickInfo, copyLog, sampled>>

\* the rest of Compute::SetUseIntelCommandQueueExtension, then the flag
SetUseExtension ==
    /\ AtStep("SetUseExtension")
    /\ LET cid == particles.m_pCompute
           desired == particles.m_commandQueueExtensionEnabled
       IN \E enabled \in GetEnabled(compute[cid].adapter, desired) :
          LET c == ComputeSetUseExtension(compute[cid], desired, enabled)
          IN /\ adapterExt' = Asked(compute[cid].adapter, desired, enabled)
             /\ compute' = [compute EXCEPT ![cid] = c]
             /\ particles' = [particles EXCEPT !.m_commandQueueExtensionEnabled =
                    \/ c.m_usingIntelCommandQueueExtension
                    \/ render[particles.m_pRender].m_usingIntelCommandQueueExtension]
    /\ todo' = Tail(todo)
    /\ UNCHANGED <<sideVars, render, tick, reconfigs, gpuVars, sigLog, tickInfo, copyLog>>


\* --------------------------------------------------- Particles::~Particles
\* "delete m_pCompute": ~Compute up to the wait of its WaitForGpu; "delete
\* m_pRender" follows.  No tick is in progress any more.
ParticlesDtor ==
    /\ AtStep("~Particles")
    /\ LET cid == particles.m_pCompute
           w == ComputeWaitForGpu(compute[cid], cid)
       IN /\ compute' = [compute EXCEPT ![cid] = w.obj]
          /\ Submit(NoId, <<>>, <<>>, cid, w.cmds)
          /\ todo' = <<Block(<<"compute", cid>>, w.waitFor), St("ComputeGone"),
                       St("DtorRender"), St("DeleteRender")>> \o Tail(todo)
    /\ tickInfo' = NoTickInfo
    /\ UNCHANGED <<envVars, sideVars, particles, render, tick, reconfigs, running, fence,
                   posMem, velMem, localMem, copyLog, sampled>>

\* the rest of ~Compute for m_pCompute: its heap, fence and queue are released
ComputeGone ==
    /\ AtStep("ComputeGone")
    /\ compute' = [compute EXCEPT ![particles.m_pCompute] = DeadCompute]
    /\ todo' = Tail(todo)
    /\ UNCHANGED <<envVars, sideVars, particles, render, tick, reconfigs, gpuVars, sigLog,
                   tickInfo, copyLog>>

\* "delete m_pRender" of ~Particles: ~Render up to the wait of its WaitForGpu
DtorRender ==
    /\ AtStep("DtorRender")
    /\ LET rid == particles.m_pRender
           w == RenderWaitForGpu(render[rid], rid)
       IN /\ render' = [render EXCEPT ![rid] = w.obj]
          /\ Submit(rid, w.copy, w.gfx, NoId, <<>>)
          /\ todo' = <<Block(<<"render", rid>>, w.waitFor)>> \o Tail(todo)
    /\ UNCHANGED <<envVars, sideVars, particles, compute, tick, reconfigs, running, fence,
                   posMem, velMem, localMem, tickInfo, copyLog, sampled>>

\* ------------------------------------------------------ particle counts
\* Particles' count members and what Render::Draw and Compute::Simulate do
\* with the counts they are handed.  A count never influences a fence, a wait
\* or a buffer index, so the counts run in a specification of their own.

\* the variables of the fence protocol
fenceVars == <<adapterExt, particles, render, compute, todo, tick, reconfigs,
               queue, running, fence, posMem, velMem, localMem, sigLog, tickInfo,
               copyLog, sampled>>

\* const INT ParticleCount: the default of m_maxNumParticles
ParticleCount == 4194304
\* lower end of the sliders' range
MIN_NUM_PARTICLES == 262144
\* threads per group of the simulation shader
BLOCK_SIZE == 64

\* values of the "numparticles" command-line argument that are tried: the
\* default, the sliders' lower end, counts that are no multiple of BLOCK_SIZE,
\* a count no float holds exactly, and a count below the sliders' lower end
CommandLineCounts ==
    {ParticleCount, MIN_NUM_PARTICLES, MIN_NUM_PARTICLES + 100, 2^24 + 1, 100}

Min(a, b) == IF a < b THEN a ELSE b

\* the positions tried for a slider whose range is lo .. hi
SliderPositions(lo, hi) ==
    {v \in {lo, lo + 1, lo + BLOCK_SIZE, hi} : lo <= v /\ v <= hi}

\* the members as the constructor's initialiser list leaves them
CountsAtStart ==
    [at |-> "ctor",
     m_maxNumParticles |-> ParticleCount, m_enableUI |-> TRUE,
     m_numParticlesRendered |-> ParticleCount,
     m_numParticlesCopied |-> ParticleCount,
     m_numParticlesSimulated |-> ParticleCount,
     m_numParticlesLinked |-> TRUE,
     \* what the stages were handed in the current tick
     linkedAtEntry |-> TRUE, drawInstanced |-> 0, copyElements |-> 0,
     in_numActiveParticles |-> 0, dispatchGroups |-> 0]

\* int -> float (round to nearest, ties to even), for 0 <= n < 2^25
FloatOf(n) ==
    IF n <= 2^24 \/ n % 2 = 0 THEN n
    ELSE IF (n - 1) % 4 = 0 THEN n - 1 ELSE n + 1

\* Compute::Simulate's thread-group count:
\* static_cast<UINT>(ceil(in_numActiveParticles / float(BLOCK_SIZE)))
DispatchGroups(n) == (FloatOf(n) + BLOCK_SIZE - 1) \div BLOCK_SIZE

\* DrawGUI: the member a slider writes; with linked sliders all three point at
\* m_numParticlesRendered
SliderTarget_Own(linked, slider) == slider
SliderTarget(linked, slider) == IF linked THEN "m_numParticlesRendered" ELSE slider

Sliders == {"m_numParticlesRendered", "m_numParticlesCopied", "m_numParticlesSimulated"}

\* Particles::Particles: ParseCommandLine, then the three counts start at the
\* maximum
CountsCtor ==
    /\ counts.at = "ctor"
    /\ \E n \in CommandLineCounts, ui \in BOOLEAN :
        counts' = [counts EXCEPT !.at = "Draw",
                                 !.m_maxNumParticles = n, !.m_enableUI = ui,
                                 !.m_numParticlesRendered = n,
                                 !.m_numParticlesCopied = n,
                                 !.m_numParticlesSimulated = n]
    /\ UNCHANGED <<fenceVars, settings, imports, alias>>

\* Particles::Draw up to the call of Render::Draw, and Render::Draw up to
\* DrawGUI: the linkage is applied, the copy is recorded with the copied count
\* and the draw with the rendered count
CountsDraw ==
    /\ counts.at = "Draw"
    /\ LET linked == counts.m_numParticlesLinked
           c == IF linked
                THEN [counts EXCEPT !.m_numParticlesCopied = counts.m_numParticlesRendered,
                                    !.m_numParticlesSimulated = counts.m_numParticlesRendered]
                ELSE counts
       IN counts' = [c EXCEPT !.at = "DrawGUI",
                              !.linkedAtEntry = linked,
                              !.copyElements = c.m_numParticlesCopied,
                              !.drawInstanced = c.m_numParticlesRendered,
                              !.in_numActiveParticles = 0,
                              !.dispatchGroups = 0]
    /\ UNCHANGED <<fenceVars, settings, imports, alias>>

\* Particles::DrawGUI, called by Render::Draw after the draw was recorded: the
\* user moves at most one slider or clicks the check box
CountsDrawGUI ==
    /\ counts.at = "DrawGUI"
    /\ LET lo == Min(MIN_NUM_PARTICLES, counts.m_maxNumParticles)
           hi == counts.m_maxNumParticles
       IN \/ counts' = [counts EXCEPT !.at = "Simulate"]
          \/ /\ counts.m_enableUI
             /\ \E s \in Sliders, v \in SliderPositions(lo, hi) :
                 counts' = [counts EXCEPT
                               !.at = "Simulate",
                               ![SliderTarget(counts.m_numParticlesLinked, s)] = v]
          \/ /\ counts.m_enableUI
             /\ counts' = [counts EXCEPT !.at = "Simulate",
                                         !.m_numParticlesLinked = ~@]
    /\ UNCHANGED <<fenceVars, settings, imports, alias>>

\* m_pCompute->Simulate(m_numParticlesSimulated, ...): the dispatch
CountsSimulate ==
    /\ counts.at = "Simulate"
    /\ counts' = [counts EXCEPT
                     !.at = "Draw",
                     !.in_numActiveParticles = counts.m_numParticlesSimulated,
                     !.dispatchGroups = DispatchGroups(counts.m_numParticlesSimulated)]
    /\ UNCHANGED <<fenceVars, settings, imports, alias>>

\* ------------------------------------------------------------ settings
\* The settings of the GUI and what Particles::Draw rebuilds for them, without
\* the queues and fences: the instances are reduced to the adapter they are on
\* and to whether their queues use the vendor extension, so that any number of
\* setting changes can follow one another.

\* the members as the constructor's initialiser list leaves them
SettingsAtStart ==
    [at |-> "ctor",
     numAdapters |-> 0,                   \* m_adapters.size()
     m_pRender |-> "nullptr", m_pCompute |-> "nullptr",
     ticked |-> FALSE,                    \* Particles::Draw has been called
     supports |-> [a \in Adapters |-> FALSE],
     m_renderAdapterIndex |-> 0, m_computeAdapterIndex |-> 0,
     m_commandQueueExtensionEnabled |-> FALSE, m_fullScreen |-> FALSE,
     renderUsing |-> FALSE, computeUsing |-> FALSE,
     prevRenderAdapterIndex |-> 0, prevComputeAdapterIndex |-> 0,
     prevQueueExtension |-> FALSE, prevFullScreen |-> FALSE,
     \* what the last tick did
     extToggled |-> FALSE, rendersDeleted |-> 0, swapChainsCreated |-> 0,
     computesCreated |-> 0, computeQueuesCreated |-> 0]

\* Render::Render / Compute::Initialize: the extension is used where it is
\* asked for and the device's ExtensionHelper is enabled
UsingExtension(asked, supported) == asked /\ supported

\* "new render device?": the condition under which Draw deletes m_pRender and
\* creates a new Render (and with it a new swap chain)
NeedsNewRender_AnyToggle(s) ==
    \/ s.prevRenderAdapterIndex # s.m_renderAdapterIndex
    \/ s.prevFullScreen # s.m_fullScreen
    \/ s.prevQueueExtension # s.m_commandQueueExtensionEnabled
NeedsNewRender(s) ==
    \/ s.prevRenderAdapterIndex # s.m_renderAdapterIndex
    \/ s.prevFullScreen # s.m_fullScreen
    \/ /\ s.prevQueueExtension # s.m_commandQueueExtensionEnabled
       /\ s.supports[s.prevRenderAdapterIndex]

\* the numbers of adapters the enumeration may leave in m_adapters
EnumeratedAdapters == {0, NumAdapters}

\* the constructor as it would be if it went on without an adapter
CtorOutcome_GoesOn(numAdapters) == "constructed"
\* "if (numAdapters > 0) {...} else { throw; }": no exception is being handled
\* at that point, so the throw-expression calls std::terminate
CtorOutcome(numAdapters) == IF numAdapters > 0 THEN "constructed" ELSE "terminated"

\* Particles::Particles: the adapters are enumerated; then AssignAdapters,
\* new Render, new Compute, ShareHandles and the flag, or the process ends
SettingsCtor ==
    /\ settings.at = "ctor"
    /\ \E n \in EnumeratedAdapters,
          uma \in [Adapters -> BOOLEAN], sup \in [Adapters -> BOOLEAN] :
        LET a == AssignAdapters(uma)
            asked == settings.m_commandQueueExtensionEnabled
            r == UsingExtension(asked, sup[a.render])
            c == UsingExtension(asked, sup[a.compute])
        IN settings' =
            IF CtorOutcome(n) = "terminated"
            THEN [settings EXCEPT !.at = "terminated", !.numAdapters = n]
            ELSE [settings EXCEPT
                     !.at = "Draw", !.numAdapters = n, !.supports = sup,
                     !.m_pRender = "created", !.m_pCompute = "created",
                     !.m_renderAdapterIndex = a.render,
                     !.m_computeAdapterIndex = a.compute,
                     !.renderUsing = r, !.computeUsing = c,
                     !.swapChainsCreated = 1, !.computesCreated = 1,
                     !.computeQueuesCreated = 1,
                     !.m_commandQueueExtensionEnabled = c \/ r]
    /\ UNCHANGED <<fenceVars, counts, imports, alias>>

\* Particles::Draw up to the "Handle GUI changes" part: the prev* locals are
\* taken, then DrawGUI (inside Render::Draw) may change one setting
SettingsDrawGUI ==
    /\ settings.at = "Draw"
    /\ LET s == [settings EXCEPT
                    !.at = "Reconfigure", !.ticked = TRUE,
                    !.prevRenderAdapterIndex = settings.m_renderAdapterIndex,
                    !.prevComputeAdapterIndex = settings.m_computeAdapterIndex,
                    !.prevQueueExtension = settings.m_commandQueueExtensionEnabled,
                    !.prevFullScreen = settings.m_fullScreen,
                    !.extToggled = FALSE,
                    !.rendersDeleted = 0, !.swapChainsCreated = 0,
                    !.computesCreated = 0, !.computeQueuesCreated = 0]
       IN \/ settings' = s
          \/ \E a \in Adapters : settings' = [s EXCEPT !.m_renderAdapterIndex = a]
          \/ \E a \in Adapters : settings' = [s EXCEPT !.m_computeAdapterIndex = a]
          \/ settings' = [s EXCEPT !.m_commandQueueExtensionEnabled = ~@,
                                   !.extToggled = TRUE]
          \/ settings' = [s EXCEPT !.m_fullScreen = ~@]
    /\ UNCHANGED <<fenceVars, counts, imports, alias>>

\* the "Handle GUI changes" part of Particles::Draw
SettingsReconfigure ==
    /\ settings.at = "Reconfigure"
    /\ LET s == settings
           flag == s.m_commandQueueExtensionEnabled
           newRender == NeedsNewRender(s)
           rUsing == IF newRender
                     THEN UsingExtension(flag, s.supports[s.m_renderAdapterIndex])
                     ELSE s.renderUsing
           newCompute == s.prevComputeAdapterIndex # s.m_computeAdapterIndex
           cUsing1 == IF newCompute
                      THEN UsingExtension(flag, s.supports[s.m_computeAdapterIndex])
                      ELSE s.computeUsing
           flag1 == IF newCompute THEN cUsing1 ELSE flag
           setUse == s.prevQueueExtension # flag1
           \* Compute::SetUseIntelCommandQueueExtension
           desired == flag1 /\ s.supports[s.m_computeAdapterIndex]
           recreate == setUse /\ cUsing1 # desired
           cUsing2 == IF recreate THEN desired ELSE cUsing1
           flag2 == IF setUse THEN cUsing2 \/ rUsing ELSE flag1
           One(b) == IF b THEN 1 ELSE 0
       IN settings' = [s EXCEPT
                          !.at = "Draw",
                          !.renderUsing = rUsing, !.computeUsing = cUsing2,
                          !.m_commandQueueExtensionEnabled = flag2,
                          !.rendersDeleted = One(newRender),
                          !.swapChainsCreated = One(newRender),
                          !.computesCreated = One(newCompute),
                          !.computeQueuesCreated = One(newCompute) + One(recreate)]
    /\ UNCHANGED <<fenceVars, counts, imports, alias>>

\* ------------------------------------------------------ shared handles
\* Particles::ShareHandles, Compute::CopyState and the ticks that follow, when
\* an OpenSharedHandle may fail.  An interface pointer is "none" before the
\* call, "open" after a successful one and "null" after a failed one.

\* Render and Compute exist, ShareHandles has not been called
ImportsAtStart ==
    [at |-> "ShareHandles", ticks |-> 0,
     renders |-> 1, computes |-> 1,       \* instances created so far
     m_sharedRenderFence |-> "none",      \* Compute's view of Render's fence
     pSharedHeap |-> "none",              \* Render's view of Compute's heap
     m_sharedComputeFence |-> "none",     \* Render's view of Compute's fence
     sharedHeap |-> "none",               \* CopyState's view of the old Compute's heap
     failed |-> {},                       \* the imports that have failed
     enqueued |-> {},                     \* queue operations issued so far
     how |-> "running"]

\* the outcomes of a call that is handed a null interface pointer: the call
\* returns an error, which ThrowIfFailed throws, or it faults
NullArgument == {"throw", "fault"}

Opened(ok) == IF ok THEN "open" ELSE "null"

\* the program stops: an exception leaves Particles, or the process faults
Abort(i, how) == [i EXCEPT !.at = "aborted", !.how = how]

\* what follows a tick: the next tick, or a GUI change that makes
\* Particles::Draw create a new Render (then ShareHandles) or a new Compute
\* (whose constructor calls CopyState; then ShareHandles); a new instance
\* starts without imported objects
AfterTick(i) ==
    IF i.ticks >= MaxTicks THEN {[i EXCEPT !.at = "done"]}
    ELSE {[i EXCEPT !.at = "Draw"],
          [i EXCEPT !.at = "ShareHandles", !.renders = @ + 1,
                    !.pSharedHeap = "none", !.m_sharedComputeFence = "none"],
          [i EXCEPT !.at = "CopyState", !.computes = @ + 1,
                    !.m_sharedRenderFence = "none", !.sharedHeap = "none"]}

\* Compute::GetSharedHandles: "ThrowIfFailed(OpenSharedHandle(in_fenceHandle,
\* &m_sharedRenderFence))"
ImportGetSharedHandles ==
    /\ imports.at = "ShareHandles"
    /\ \E ok \in BOOLEAN :
        LET i == [imports EXCEPT !.m_sharedRenderFence = Opened(ok),
                                 !.failed = IF ok THEN @ ELSE @ \cup {"m_sharedRenderFence"}]
        IN imports' = IF ok THEN [i EXCEPT !.at = "SetShared"] ELSE Abort(i, "throw")
    /\ UNCHANGED <<fenceVars, counts, settings, alias>>

\* Render::SetShared: both handles are opened and neither result is tested;
\* the placed resources are created in the heap (ThrowIfFailed), the initial
\* copy from the shared buffers is executed and WaitForGpu waits for it
ImportSetShared ==
    /\ imports.at = "SetShared"
    /\ \E heapOk \in BOOLEAN, fenceOk \in BOOLEAN, null \in NullArgument :
        LET bad == (IF heapOk THEN {} ELSE {"pSharedHeap"})
                   \cup (IF fenceOk THEN {} ELSE {"m_sharedComputeFence"})
            i == [imports EXCEPT !.pSharedHeap = Opened(heapOk),
                                 !.m_sharedComputeFence = Opened(fenceOk),
                                 !.failed = @ \cup bad]
        IN imports' =
            IF ~heapOk THEN Abort(i, null)   \* CreatePlacedResource(null heap)
            ELSE [i EXCEPT !.at = "Draw",
                           !.enqueued = @ \cup {"SetShared: copy from m_sharedBuffers"}]
    /\ UNCHANGED <<fenceVars, counts, settings, alias>>

\* Render::CopySimulationResults (in Render::Draw): the copy list is executed,
\* then the copy queue is told to wait for m_sharedComputeFence
ImportDraw ==
    /\ imports.at = "Draw"
    /\ \E null \in NullArgument :
        LET i == [imports EXCEPT !.enqueued = @ \cup {"copy from m_sharedBuffers"}]
        IN imports' =
            IF i.m_sharedComputeFence = "open"
            THEN [i EXCEPT !.at = "Simulate",
                           !.enqueued = @ \cup {"Wait(m_sharedComputeFence)"}]
            ELSE Abort(i, null)
    /\ UNCHANGED <<fenceVars, counts, settings, alias>>

\* Compute::Simulate: the compute queue is told to wait for m_sharedRenderFence;
\* then the tick ends
ImportSimulate ==
    /\ imports.at = "Simulate"
    /\ \E null \in NullArgument :
        LET i == [imports EXCEPT !.ticks = @ + 1,
                                 !.enqueued = @ \cup {"Wait(m_sharedRenderFence)"}]
        IN IF imports.m_sharedRenderFence = "open"
           THEN imports' \in AfterTick(i)
           ELSE imports' = Abort([imports EXCEPT !.ticks = @ + 1], null)
    /\ UNCHANGED <<fenceVars, counts, settings, alias>>

\* Compute::CopyState in the constructor of a new Compute:
\* "ThrowIfFailed(OpenSharedHandle(in_pCompute->m_sharedHandles.m_heap))",
\* then copies out of the old instance's heap; ShareHandles follows
ImportCopyState ==
    /\ imports.at = "CopyState"
    /\ \E ok \in BOOLEAN :
        LET i == [imports EXCEPT !.sharedHeap = Opened(ok),
                                 !.failed = IF ok THEN @ ELSE @ \cup {"sharedHeap"}]
        IN imports' =
            IF ok THEN [i EXCEPT !.at = "ShareHandles",
                                 !.enqueued = @ \cup {"CopyState: copy from srcBuffer"}]
            ELSE Abort(i, "throw")
    /\ UNCHANGED <<fenceVars, counts, settings, alias>>

\* ------------------------------------------------ leaving async compute
\* Compute::ResetFromAsyncHelper on an instance whose position buffers are
\* Render's local buffers.  Particles never brings a Compute into that state
\* (nothing passes Render's buffers to SetAsync), so the function is applied
\* here to every such instance: SetAsync with either buffer index, and any
\* contents of Render's buffers and of the retained shared buffers.

\* versions a buffer slot may hold
Versions == 0 .. MaxTicks

AliasAtStart ==
    [at |-> "start",
     c |-> DeadCompute,
     local |-> [s \in Slots |-> NoVer],      \* Render's m_buffers
     shared |-> [s \in Slots |-> NoVer],     \* m_sharedComputeBuffersReference
     before |-> DeadCompute,                 \* the instance at the last call
     localBefore |-> [s \in Slots |-> NoVer],
     sharedBefore |-> [s \in Slots |-> NoVer],
     submitted |-> 0]                        \* commands the last call submitted

\* the copy list of ResetFromAsyncHelper: CopyBufferRegion from
\* m_positionBuffers[i] to m_sharedComputeBuffersReference[i] for each i
CopyOutOfAlias(positions) == [i \in Slots |-> positions[i]]

\* SetAsync(in_fence, in_buffers, in_bufferIndex) with Render's fence and
\* buffers on a constructed Compute
AliasSetAsync ==
    /\ alias.at = "start"
    /\ \E in_bufferIndex \in Slots,
          local \in [Slots -> Versions], shared \in [Slots -> Versions] :
        alias' = [alias EXCEPT
                    !.at = "aliased",
                    !.c = SetAsync(NewCompute(0, FALSE, FALSE), 0, "render", in_bufferIndex),
                    !.local = local, !.shared = shared]
    /\ UNCHANGED <<fenceVars, counts, settings, imports>>

\* a call of ResetFromAsyncHelper, WaitForGpu's host wait included: when it
\* returns the copy list has been executed
AliasCall(next) ==
    LET reset == ResetFromAsyncHelper(alias.c, 0)
        copies == \E i \in 1 .. Len(reset.cmds) :
                     /\ reset.cmds[i].op = "exec"
                     /\ reset.cmds[i].x.kind = "resetasync"
    IN alias' = [alias EXCEPT
                   !.at = next,
                   !.c = reset.obj,
                   !.shared = IF copies THEN CopyOutOfAlias(alias.local) ELSE @,
                   !.before = alias.c,
                   !.localBefore = alias.local,
                   !.sharedBefore = alias.shared,
                   !.submitted = Len(reset.cmds)]

\* in_pCompute->ResetFromAsyncHelper() on the aliased instance
AliasReset ==
    /\ alias.at = "aliased"
    /\ AliasCall("reset")
    /\ UNCHANGED <<fenceVars, counts, settings, imports>>

\* a second call right after the first
AliasResetAgain ==
    /\ alias.at = "reset"
    /\ AliasCall("resetAgain")
    /\ UNCHANGED <<fenceVars, counts, settings, imports>>

\* ------------------------------------------------------- specification
\* the state at the start of Particles::Particles(in_hwnd), default command
\* line: the member initialisers have run, nothing has been created
Init ==
    /\ adapterExt = [a \in Adapters |-> "unknown"]
    /\ particles = [m_renderAdapterIndex |-> 0, m_computeAdapterIndex |-> 0,
                    m_commandQueueExtensionEnabled |-> FALSE, m_fullScreen |-> FALSE,
                    m_pRender |-> NoId, m_pCompute |-> NoId,
                    pNewCompute |-> NoId, pOldCompute |-> NoId,
                    nextRenderId |-> 0, nextComputeId |-> 0,
                    prevRenderAdapterIndex |-> 0, prevComputeAdapterIndex |-> 0,
                    prevQueueExtension |-> FALSE, prevFullScreen |-> FALSE,
                    renderSharedFenceValue |-> 0, drawHandle |-> 0]
    /\ render = [i \in Ids |-> DeadRender]
    /\ compute = [i \in Ids |-> DeadCompute]
    /\ todo = <<St("ParticlesCtor")>>
    /\ tick = 0
    /\ reconfigs = 0
    /\ queue = [q \in QueueIds |-> <<>>]
    /\ running = [q \in QueueIds |-> NoWork]
    /\ fence = [f \in FenceIds |-> 0]
    /\ posMem = [i \in Ids |-> [s \in Slots |-> Torn]]
    /\ velMem = [i \in Ids |-> [buf |-> [s \in Slots |-> Torn],
                                 heap |-> [s \in Slots |-> NoVer]]]
    /\ localMem = [i \in Ids |-> [s \in Slots |-> Torn]]
    /\ sigLog = [f \in FenceIds |-> <<>>]
    /\ tickInfo = NoTickInfo
    /\ copyLog = <<>>
    /\ sampled = [tick |-> 0, ver |-> NoVer]
    /\ counts = CountsAtStart
    /\ settings = SettingsAtStart
    /\ imports = ImportsAtStart
    /\ alias = AliasAtStart

\* the host thread
Host ==
    \/ ParticlesCtor
    \/ NewRenderStep
    \/ HostWait
    \/ NewComputeStep
    \/ InitializeParticles
    \/ ComputeCtorEnd
    \/ AssignCompute
    \/ ShareHandles
    \/ CtorFinish
    \/ Draw
    \/ Simulate
    \/ AfterWait
    \/ DrainCompute
    \/ GuiRender
    \/ DeleteRender
    \/ GuiCompute
    \/ CopyStatePositions
    \/ CopyStateOldVelocity
    \/ CopyStateVelocity
    \/ DeleteOldCompute
    \/ OldComputeGone
    \/ AfterComputeSwap
    \/ GuiExt
    \/ SetUseExtension
    \/ TickEnd
    \/ ParticlesDtor
    \/ ComputeGone
    \/ DtorRender

\* the command queues
Gpu == \E q \in QueueIds : GpuStep(q)

Next == Host \/ Gpu

Spec == Init /\ [][Next]_vars

\* the host thread runs whenever it is not blocked, and every command queue
\* makes progress on its head command whenever that command can proceed
FairSpec ==
    /\ Spec
    /\ WF_vars(Host)
    /\ \A q \in QueueIds : WF_vars(GpuStep(q))


\* the counts through the constructor and the ticks
CountsNext ==
    \/ CountsCtor
    \/ CountsDraw
    \/ CountsDrawGUI
    \/ CountsSimulate

CountsSpec == Init /\ [][CountsNext]_vars

\* the settings through the constructor and the ticks
SettingsNext ==
    \/ SettingsCtor
    \/ SettingsDrawGUI
    \/ SettingsReconfigure

SettingsSpec == Init /\ [][SettingsNext]_vars

\* the shared handles through ShareHandles, CopyState and the ticks
ImportNext ==
    \/ ImportGetSharedHandles
    \/ ImportSetShared
    \/ ImportDraw
    \/ ImportSimulate
    \/ ImportCopyState

ImportSpec == Init /\ [][ImportNext]_vars

\* leaving async compute on its own
AliasNext ==
    \/ AliasSetAsync
    \/ AliasReset
    \/ AliasResetAgain

AliasSpec == Init /\ [][AliasNext]_vars

\* ---------------------------------------------------------- properties
\* the command lists submitted to queue q that have not finished
Pending(q) ==
    {queue[q][i].x : i \in {j \in 1 .. Len(queue[q]) : queue[q][j].op = "exec"}}
    \cup (IF running[q].kind = "none" THEN {} ELSE {running[q]})

\* the command lists being executed
Executing == {running[q] : q \in {p \in QueueIds : running[p].kind # "none"}}

\* nothing is left to do: the host has returned from its last tick and from
\* ~Particles, and every queue has retired everything submitted to it
Quiescent ==
    /\ todo = <<>>
    /\ \A q \in QueueIds : queue[q] = <<>> /\ running[q].kind = "none"

\* C1: in every tick the shared slot Simulate writes (1 - Compute.m_bufferIndex
\* on entry) differs from the shared slot CopySimulationResults reads
\* (1 - Render.m_sharedBufferIndex on entry).
C1_PingPongExclusive ==
    tickInfo.simulated => tickInfo.newIndex # tickInfo.srcSharedIndex

\* C2: a dispatch writing shared slot k never executes at the same time as a
\* copy reading shared slot k.
C2_NoWriteDuringCopy ==
    \A x \in Executing, y \in Executing :
        x.kind = "dispatch" /\ y.kind = "copy" => ~ReadsFrom(y, x)

\* C3 as claimed: the copy enqueued by CopySimulationResults(in_fenceValue, n)
\* executes only once the compute fence has reached in_fenceValue.
C3_CopyAfterComputeFence ==
    \A x \in Executing :
        x.kind = "copy" =>
            fence[<<"compute", copyLog[x.tick].cid>>] >= copyLog[x.tick].cv

\* C3 as amended: the copy fence does not reach the value signaled by
\* CopySimulationResults(in_fenceValue, n), and no copy enqueued by a later call
\* on the same Render executes, before the compute fence has reached
\* in_fenceValue.
C3_NextCopyAfterComputeFence ==
    \A i \in 1 .. Len(copyLog) :
        LET e == copyLog[i]
            reached == fence[<<"compute", e.cid>>] >= e.cv
        IN /\ fence[<<"copy", e.rid>>] >= e.k => reached
           /\ \A x \in Executing :
                x.kind = "copy" /\ x.r = e.rid /\ x.tick > e.tick => reached

\* a copy of the second or a later tick is executing
C3_LaterCopyRuns ==
    \E x \in Executing : x.kind = "copy" /\ x.tick >= 2

\* C4: without reconfiguration, the draw of tick f+1 samples the data written
\* by the Simulate of tick f, and the draw of tick f does not.
C4_SampledNextTick ==
    (reconfigs = 0 /\ sampled.tick >= 2) => sampled.ver = sampled.tick - 1

\* C5: the shared slot CopySimulationResults reads is the one designated by
\* Compute.m_bufferIndex when the copy is enqueued.
C5_CopyReadsPublished ==
    tickInfo.tick > 0 => tickInfo.srcSharedIndex = tickInfo.bufferIndexAtCopy

\* C6: on every fence the values passed to Signal are strictly increasing, over
\* ticks, drains and queue re-creations.
C6_SignalsIncrease ==
    \A f \in FenceIds :
        \A i \in 1 .. (Len(sigLog[f]) - 1) : sigLog[f][i] < sigLog[f][i + 1]

\* a Compute whose queue was re-created has been ticked, drained and ticked again
C6_AfterQueueRecreation ==
    \E id \in Ids :
        /\ compute[id].queuesCreated = 2
        /\ particles.m_pCompute = id
        /\ tickInfo.simulated
        /\ Len(sigLog[<<"compute", id>>]) >= 6

\* C7: under fair progress of the host and of every queue, every queue-level
\* Wait and every host wait is eventually satisfied: the run reaches the state
\* where the host has returned from its last tick and every queue is empty.
C7_EveryWaitReturns == <>Quiescent

\* after a reconfiguration the host is blocked on a fence while a queue's head
\* command is a Wait that is not yet satisfied
C7_WaitsPending ==
    /\ reconfigs > 0
    /\ AtStep("HostWait")
    /\ fence[Head(todo).f] < Head(todo).v
    /\ \E q \in QueueIds :
         /\ running[q].kind = "none"
         /\ queue[q] # <<>>
         /\ Head(queue[q]).op = "wait"
         /\ fence[Head(queue[q]).f] < Head(queue[q]).v

\* C8: in a tick that changes no setting, Particles::Draw passes exactly one
\* new value to Signal on the render fence and m_renderFenceValue grows by 1.
C8_OneRenderSignalPerDraw ==
    (tickInfo.tick > 0 /\ ~tickInfo.changed) =>
        LET rid == particles.m_pRender
            log == sigLog[<<"render", rid>>]
        IN /\ render[rid].m_renderFenceValue = tickInfo.renderFenceValueBefore + 1
           /\ Len(log) = tickInfo.renderSignalsBefore + 1
           /\ \A i \in 1 .. (Len(log) - 1) : log[i] < log[Len(log)]

\* the last tick of a run has returned without any setting having changed
C8_LastTickReturned ==
    /\ tickInfo.tick = MaxTicks /\ ~tickInfo.changed /\ reconfigs = 0
    /\ AtStep("~Particles")

\* C9: while the copy of tick f writes local slot d, no draw of an earlier tick
\* that samples d is unfinished, and no draw sampling d is executing.
C9_CopyAfterDraw ==
    \A x \in Executing :
        x.kind = "copy" =>
            /\ \A y \in Pending(<<"gfx", x.r>>) :
                 y.kind = "draw" /\ y.tick < x.tick => y.src # x.dst
            /\ \A y \in Executing :
                 y.kind = "draw" /\ y.r = x.r => y.src # x.dst

\* the copy of tick f executes, writing the slot the draw of tick f-1 sampled
C9_CopyIntoSampledSlot ==
    \E x \in Executing :
        /\ x.kind = "copy"
        /\ x.tick >= 2
        /\ sampled.tick = x.tick - 1
        /\ copyLog[x.tick - 1].rid = x.r

\* C10: the draw of tick f samples a local slot other than the one the copy of
\* tick f writes, and while it executes the copy that last wrote the sampled
\* slot (an earlier tick's, or SetShared's) has finished and the copy fence has
\* reached that copy's value.
C10_DrawAfterCopy ==
    /\ tickInfo.tick > 0 => tickInfo.sampledIndex # tickInfo.dstLocalIndex
    /\ \A x \in Executing :
         x.kind = "draw" =>
            /\ \A y \in Pending(<<"copy", x.r>>) :
                 y.kind = "copy" /\ y.tick < x.tick => y.dst # x.src
            /\ \A y \in Pending(<<"gfx", x.r>>) : y.kind # "setshared"
            /\ \A i \in 1 .. Len(copyLog) :
                 copyLog[i].rid = x.r /\ copyLog[i].tick < x.tick
                    => fence[<<"copy", x.r>>] >= copyLog[i].k

\* the draw of a tick executes while the copy of the same tick is unfinished
C10_DrawBesideCopy ==
    \E x \in Executing :
        /\ x.kind = "draw"
        /\ x.tick >= 2
        /\ copyLog[x.tick - 1].rid = x.r
        /\ \E y \in Pending(<<"copy", x.r>>) : y.kind = "copy" /\ y.tick = x.tick

\* C11 as claimed: in a tick that changes no setting the host performs exactly
\* one blocking wait, and that wait has a timeout.
C11_OneBoundedWait ==
    (tickInfo.tick > 0 /\ ~tickInfo.changed) =>
        /\ Len(tickInfo.waits) = 1
        /\ tickInfo.waits[1].timeout # "INFINITE"

\* C11 as amended: in a tick that changes no setting the host performs the
\* timed wait of UpdateCamera and, exactly when Render::Draw returned a handle,
\* one more wait, without timeout, on the render fence of the current Render
\* for the value MoveToNextFrame armed; it blocks nowhere else.
C11_WaitsOfSteadyTick ==
    (tickInfo.tick > 0 /\ ~tickInfo.changed) =>
        LET n == Len(tickInfo.waits) IN
        /\ n >= 1 /\ tickInfo.waits[1] = UpdateCamera
        /\ n <= 2
        /\ n = 2 <=> (tickInfo.simulated /\ particles.drawHandle # 0)
        /\ n = 2 => tickInfo.waits[2] =
                        [on |-> "m_renderFenceEvent", timeout |-> "INFINITE"]
        /\ AtStep("HostWait") =>
              /\ n = 2
              /\ Head(todo).f = <<"render", particles.m_pRender>>
              /\ Head(todo).v = particles.drawHandle

\* in a tick that changes no setting the host is blocked, without timeout, on
\* a render-fence value the graphics queue has not yet signaled
C11_BlockedOnDrawHandle ==
    /\ tickInfo.tick > 0 /\ ~tickInfo.changed
    /\ AtStep("HostWait")
    /\ fence[Head(todo).f] < Head(todo).v

\* the host steps of a tick that destroy or create a Render or Compute
\* instance, re-create a command queue or re-establish the shared channel
ReconfigSteps ==
    {"GuiRender", "DeleteRender", "NewRender", "GuiCompute", "NewCompute",
     "CopyStatePositions", "CopyStateOldVelocity", "CopyStateVelocity",
     "ComputeCtorEnd", "AssignCompute", "DeleteOldCompute", "OldComputeGone",
     "ShareHandles", "AfterComputeSwap", "GuiExt", "SetUseExtension"}

\* the work Render::Draw and Compute::Simulate submit
TickWork == {"copy", "draw", "dispatch"}

\* C12: in a tick that changed a setting, before the host destroys or creates
\* an instance, re-creates a queue or re-establishes the shared channel, the
\* waits of Render::WaitForGpu and Compute::WaitForGpu of that tick's drain
\* have returned: both fences have reached the drain's values and no queue
\* holds unfinished work of a Draw or a Simulate.
C12_DrainedBeforeReconfig ==
    (tickInfo.tick > 0 /\ todo # <<>> /\ Head(todo).s \in ReconfigSteps) =>
        /\ \E d \in {tickInfo.drains[i] : i \in 1 .. Len(tickInfo.drains)} :
              d.f[1] = "render" /\ fence[d.f] >= d.v
        /\ \E d \in {tickInfo.drains[i] : i \in 1 .. Len(tickInfo.drains)} :
              d.f[1] = "compute" /\ fence[d.f] >= d.v
        /\ \A q \in QueueIds : \A x \in Pending(q) : x.kind \notin TickWork

\* after the drain of a tick the host is about to release a Render or a
\* Compute instance or to re-create the compute queue
C12_AboutToRebuild ==
    /\ tick > 0
    /\ Len(tickInfo.drains) = 2
    /\ AtStep("DeleteRender") \/ AtStep("OldComputeGone") \/ AtStep("SetUseExtension")

\* the position of a kind of work in the order the claim gives
Rank(k) ==
    CASE k = "copy" -> 1 [] k = "draw" -> 2 [] k = "dispatch" -> 3 [] OTHER -> 4

\* C13: in every tick the host submits the copy, then the draw, then the
\* Simulate dispatch, and only then waits on the handle Draw returned; the
\* fence value passed to Simulate is the value the copy queue was told to
\* signal on the copy fence by the CopySimulationResults of the same tick.
C13_TickOrder ==
    tickInfo.tick > 0 =>
        LET o == tickInfo.order IN
        /\ Len(o) >= 2 /\ o[1] = "copy" /\ o[2] = "draw"
        /\ \A i \in 1 .. Len(o), j \in 1 .. Len(o) : i < j => Rank(o[i]) < Rank(o[j])
        /\ tickInfo.simulated =>
              /\ Len(o) >= 3 /\ o[3] = "dispatch"
              /\ tickInfo.simFenceValue = tickInfo.copySignal
        /\ (AtStep("HostWait") /\ ~AnythingChanged(particles)) => tickInfo.simulated

\* a tick after the first has submitted copy, draw and dispatch and the host
\* waits on the handle Draw returned
C13_AllSubmittedThenWait ==
    /\ tickInfo.tick >= 2
    /\ tickInfo.order = <<"copy", "draw", "dispatch", "hostwait">>
    /\ AtStep("HostWait")

\* Particles::Draw is about to be called, or its last call has returned
BetweenTicks == AtStep("Draw") \/ AtStep("~Particles")

C15_SameAdapterAliased ==
    (BetweenTicks /\ particles.m_computeAdapterIndex = particles.m_renderAdapterIndex) =>
        compute[particles.m_pCompute].m_positionBuffers = "render"

\* the compute swap of the current tick has constructed the new instance and
\* made it the current one
SwapDone ==
    /\ tickInfo.swapFrom.cid # NoId
    /\ particles.m_pCompute # tickInfo.swapFrom.cid

\* C16: after a compute swap the slot the new instance's first Simulate reads
\* (its m_bufferIndex) holds the positions and velocities of the slot the
\* outgoing instance wrote last (the outgoing instance's m_bufferIndex).
C16_StartsFromLatestSlot ==
    SwapDone =>
        LET c == particles.m_pCompute
            b == compute[c].m_bufferIndex
            o == tickInfo.swapFrom.m_bufferIndex
        IN /\ posMem[c][b] = tickInfo.swapFrom.pos[o]
           /\ velMem[c].buf[b] = tickInfo.swapFrom.vel[o]

\* C17: in a compute swap, while the old queue holds the copy that overwrites
\* the old position buffers with velocities the new instance has already
\* received every position slot; once the new instance is the current one its
\* position and velocity buffers hold, slot by slot, what the outgoing
\* instance's buffers held before the swap; and the outgoing instance is
\* released only then, with no copy of CopyState unfinished.
C17_StateMigrated ==
    tickInfo.swapFrom.cid # NoId =>
        LET old == tickInfo.swapFrom.cid
            copies == {"copystate", "vel2pos", "velcopy"}
        IN /\ \A x \in Pending(<<"compute", old>>) :
                x.kind = "vel2pos" =>
                    posMem[particles.pNewCompute] = tickInfo.swapFrom.pos
           /\ SwapDone =>
                /\ posMem[particles.m_pCompute] = tickInfo.swapFrom.pos
                /\ velMem[particles.m_pCompute].buf = tickInfo.swapFrom.vel
           /\ ~compute[old].alive =>
                /\ SwapDone
                /\ \A q \in QueueIds : \A x \in Pending(q) : x.kind \notin copies

\* a compute swap has released the outgoing instance, whose two slots held
\* different data
C17_OldReleased ==
    /\ tickInfo.swapFrom.cid # NoId
    /\ ~compute[tickInfo.swapFrom.cid].alive
    /\ tickInfo.swapFrom.pos[0] # tickInfo.swapFrom.pos[1]

\* C18: InitializeParticles runs once per Particles object, in the construction
\* of the first Compute instance; every Compute instance created later is
\* filled by CopyState and never by InitializeParticles.
C18_SeededOnce ==
    /\ \A id \in Ids : compute[id].seeded = "random" => id = 0
    /\ \A q \in QueueIds : \A x \in Pending(q) : x.kind = "seed" => x.c = 0 /\ tick = 0
    /\ (particles.m_pCompute = 0 /\ compute[0].alive) => compute[0].seeded = "random"
    /\ \A id \in Ids \ {0} :
         (compute[id].alive /\ particles.pNewCompute # id) => compute[id].seeded = "copied"
    /\ \A id \in Ids \ {0} :
         (compute[id].alive /\ AtStep("ComputeCtorEnd")) => compute[id].seeded = "copied"

\* a Compute instance created by a compute swap is the current one
C18_SwappedInstanceRuns ==
    /\ particles.m_pCompute \in Ids \ {0}
    /\ compute[particles.m_pCompute].seeded = "copied"
    /\ BetweenTicks

\* C19: a Render instance that holds placed resources or a fence imported from
\* a Compute instance never outlives that Compute instance, also not during a
\* compute swap or in ~Particles.
C19_ExporterOutlivesImports ==
    \A rid \in Ids :
        render[rid].alive =>
            /\ render[rid].m_sharedBuffers # NoId =>
                    compute[render[rid].m_sharedBuffers].alive
            /\ render[rid].m_sharedComputeFence # NoId =>
                    compute[render[rid].m_sharedComputeFence].alive

\* the commands of kind op waiting in queue q
Queued(q, op) ==
    {queue[q][i] : i \in {j \in 1 .. Len(queue[q]) : queue[q][j].op = op}}

\* C20: every Signal a Compute instance enqueues is on its own fence and every
\* Signal a Render instance enqueues is on its own copy or render fence; the
\* fence Compute opened from Render's handle and the fence Render opened from
\* Compute's handle are only waited on.
C20_ImportedFencesOnlyWaited ==
    \A id \in Ids :
        /\ \A s \in Queued(<<"compute", id>>, "signal") :
              /\ s.f = <<"compute", id>>
              /\ s.f # <<"copy", compute[id].m_sharedRenderFence>>
        /\ \A s \in Queued(<<"copy", id>>, "signal") \cup Queued(<<"gfx", id>>, "signal") :
              /\ s.f \in {<<"copy", id>>, <<"render", id>>}
              /\ s.f # <<"compute", render[id].m_sharedComputeFence>>

\* the compute queue holds a Wait on the fence imported from Render and a
\* Signal, the copy queue a Wait on the fence imported from Compute and a Signal
C20_BothSidesWaitImported ==
    LET rid == particles.m_pRender
        cid == particles.m_pCompute
    IN /\ tickInfo.simulated
       /\ \E w \in Queued(<<"compute", cid>>, "wait") :
             w.f = <<"copy", compute[cid].m_sharedRenderFence>>
       /\ \E w \in Queued(<<"copy", rid>>, "wait") :
             w.f = <<"compute", render[rid].m_sharedComputeFence>>
       /\ Queued(<<"compute", cid>>, "signal") # {}
       /\ Queued(<<"copy", rid>>, "signal") # {}

\* ---------------------------------------------------- counts: properties
\* a tick's Simulate has been issued
CountsTickDone == counts.at = "Draw" /\ counts.dispatchGroups > 0

\* C21: with the sliders unlinked, no stage uses more elements than
\* min(requested count, m_maxNumParticles): the copy's element count and the
\* draw's vertex count (both are the count requested at the call) and the
\* threads of the simulation dispatch
C21_StagesWithinRequest ==
    (CountsTickDone /\ ~counts.linkedAtEntry) =>
        /\ counts.copyElements <= counts.m_maxNumParticles
        /\ counts.drawInstanced <= counts.m_maxNumParticles
        /\ counts.dispatchGroups * BLOCK_SIZE
              <= Min(counts.in_numActiveParticles, counts.m_maxNumParticles)

SettingsBetweenTicks == settings.at = "Draw"

\* C23: after construction and after every tick m_commandQueueExtensionEnabled
\* is true exactly if Compute or Render uses the vendor queue extension
C23_FlagIsEffective ==
    SettingsBetweenTicks =>
        (settings.m_commandQueueExtensionEnabled
            <=> (settings.computeUsing \/ settings.renderUsing))

\* the tick that has just returned is one in which the GUI's "Intel Q
\* Extension" box was clicked
ExtensionToggled == SettingsBetweenTicks /\ settings.extToggled

\* C24 as stated: in a tick in which the extension setting is toggled the swap
\* chain is created anew exactly once and the compute queue is re-created
C24_SwapChainAndQueueOnce ==
    ExtensionToggled =>
        /\ settings.swapChainsCreated = 1
        /\ settings.computeQueuesCreated = 1

\* C24: in a tick in which the extension setting is toggled, the Render
\* instance (and with it the swap chain) is deleted and created anew once if
\* its device supports the extension and is left alone otherwise; no Compute
\* is created, and the compute queue is re-created once in the existing
\* Compute if its device supports the extension, and not otherwise
C24_RebuildWhereSupported ==
    ExtensionToggled =>
        /\ settings.rendersDeleted = settings.swapChainsCreated
        /\ settings.swapChainsCreated =
              (IF settings.supports[settings.m_renderAdapterIndex] THEN 1 ELSE 0)
        /\ settings.computesCreated = 0
        /\ settings.computeQueuesCreated =
              (IF settings.supports[settings.m_computeAdapterIndex] THEN 1 ELSE 0)

\* a toggle on devices that both support the extension
C24_ToggledWithSupport ==
    /\ ExtensionToggled
    /\ settings.swapChainsCreated = 1
    /\ settings.computeQueuesCreated = 1
    /\ ~settings.m_commandQueueExtensionEnabled

\* ------------------------------------------------------------ WaitForGpu
\* the host wait at the head of the continuation is the one that ends a
\* WaitForGpu (the other host wait, on Draw's handle, precedes "AfterWait")
InWaitForGpu ==
    /\ AtStep("HostWait")
    /\ ~(Len(todo) >= 2 /\ todo[2].s = "AfterWait")

\* nothing is queued or running on queue q
Idle(q) == queue[q] = <<>> /\ running[q].kind = "none"

\* C25: when Render::WaitForGpu returns, everything enqueued before on the
\* instance's copy and graphics queues has retired; when Compute::WaitForGpu
\* returns, everything enqueued before on the instance's compute queue has
C25_WaitForGpuDrains ==
    [][(HostWait /\ InWaitForGpu) =>
          LET f == Head(todo).f
          IN IF f[1] = "render"
             THEN Idle(<<"copy", f[2]>>) /\ Idle(<<"gfx", f[2]>>)
             ELSE Idle(<<"compute", f[2]>>)]_vars

\* the drain of a tick that changed a setting: Render::WaitForGpu has returned
\* after this tick's copy and draw were submitted
C25_RenderDrained ==
    /\ AtStep("DrainCompute")
    /\ tickInfo.tick > 0
    /\ fence[<<"render", particles.m_pRender>>] > 0
    /\ Idle(<<"copy", particles.m_pRender>>)
    /\ Idle(<<"gfx", particles.m_pRender>>)

\* ------------------------------------------------- failing handle imports
\* C26: once the import of a shared heap or fence handle has failed, the
\* operation has stopped the program with a hard failure (and so nothing more
\* is enqueued)
C26_FailedImportAborts ==
    imports.failed # {} => imports.at = "aborted"

\* ------------------------------------------------------------ no adapter
\* C27: if the enumeration finds no usable adapter, the construction of
\* Particles ends the process: no Render and no Compute is created, and
\* Particles::Draw never runs
C27_NoAdapterIsFatal ==
    (settings.at # "ctor" /\ settings.numAdapters = 0) =>
        /\ settings.at = "terminated"
        /\ settings.m_pRender = "nullptr"
        /\ settings.m_pCompute = "nullptr"
        /\ ~settings.ticked

\* the constructor has run on a machine without a usable adapter
C27_Terminated ==
    /\ settings.numAdapters = 0
    /\ settings.at = "terminated"

\* ------------------------------------------------- ResetFromAsyncHelper
\* C28: a call of Compute::ResetFromAsyncHelper on an instance whose position
\* buffers are its own shared buffers changes nothing: no command reaches the
\* instance's queue, and m_positionBuffers, m_bufferIndex, m_fenceValue and
\* m_sharedRenderFence keep their values
C28_ResetIsNoOp ==
    [][(CopyStatePositions
          /\ compute[particles.m_pCompute].m_positionBuffers = "shared") =>
          LET old == particles.m_pCompute
          IN /\ queue'[<<"compute", old>>] = queue[<<"compute", old>>]
             /\ compute'[old].m_positionBuffers = compute[old].m_positionBuffers
             /\ compute'[old].m_bufferIndex = compute[old].m_bufferIndex
             /\ compute'[old].m_fenceValue = compute[old].m_fenceValue
             /\ compute'[old].m_sharedRenderFence = compute[old].m_sharedRenderFence]_vars

\* CopyState's call has returned on a running, non-aliased instance: the host
\* is blocked in the WaitForGpu that follows the position copy
C28_CalledWhileNotAliased ==
    /\ AtStep("HostWait")
    /\ Len(todo) >= 2
    /\ todo[2].s = "CopyStateOldVelocity"
    /\ compute[particles.m_pCompute].m_positionBuffers = "shared"
    /\ compute[particles.m_pCompute].m_fenceValue > 1

\* ------------------------------------------------------------ GPU timers
\* D3D12GpuTimer::ResolveAllTimers records a ResolveQueryData into the timer's
\* one readback buffer m_buffer at the end of the list being recorded, and maps
\* and reads m_buffer on the host before it returns. Render::Draw calls it on
\* the draw list and Compute::Simulate on the dispatch list, each before the
\* list is submitted. ResolvesOutstanding(q, kind) is the set of the caller's
\* earlier lists, each ending in such a resolve, that queue q has not finished
ResolvesOutstanding(q, kind) == {x \in Pending(q) : x.kind = kind}

\* C29: when the host maps and reads a timer's readback buffer, in
\* Render::Draw and in Compute::Simulate, no list that resolves that timer's
\* queries into the buffer is still queued or executing
C29_TimersReadAfterRetire ==
    [][/\ Draw => ResolvesOutstanding(<<"gfx", particles.m_pRender>>, "draw") = {}
       /\ Simulate =>
             ResolvesOutstanding(<<"compute", particles.m_pCompute>>, "dispatch") = {}]_vars

\* ------------------------------------------------------- Compute::Simulate
\* C31: a call of Compute::Simulate submits a dispatch that reads slot
\* m_bufferIndex and writes the other slot, then a Signal of the compute fence
\* with the m_fenceValue found on entry; on return m_fenceValue is one higher
\* and m_bufferIndex is the slot the dispatch writes
C31_SimulateAdvances ==
    [][Simulate =>
         LET cid == particles.m_pCompute
             c == compute[cid]
             q == queue'[<<"compute", cid>>]
             n == Len(q)
         IN /\ n >= Len(queue[<<"compute", cid>>]) + 2
            /\ q[n - 1].op = "exec"
            /\ q[n - 1].x.kind = "dispatch"
            /\ q[n - 1].x.src = c.m_bufferIndex
            /\ q[n - 1].x.dst = 1 - c.m_bufferIndex
            /\ q[n] = SignalCmd(<<"compute", cid>>, c.m_fenceValue)
            /\ compute'[cid].m_fenceValue = c.m_fenceValue + 1
            /\ compute'[cid].m_bufferIndex = q[n - 1].x.dst]_vars

\* Simulate has returned in the second or a later tick: m_bufferIndex is the
\* slot its dispatch writes
C31_SecondSimulateReturned ==
    /\ tickInfo.tick >= 2
    /\ tickInfo.simulated
    /\ compute[particles.m_pCompute].m_bufferIndex = tickInfo.newIndex
    /\ compute[particles.m_pCompute].m_fenceValue > 4

\* ---------------------------------------------- the render fence as handle
\* the copy or the dispatch of tick t is queued or executing somewhere
Outstanding(t) ==
    \E q \in QueueIds : \E x \in Pending(q) :
        x.tick = t /\ x.kind \in {"copy", "dispatch"}

\* C32: once the render fence has reached the value Render::Draw signaled in
\* a tick, Compute::Simulate of that tick has been called and neither the
\* copy nor the dispatch of that tick is still queued or executing
C32_RenderFenceCoversPipeline ==
    \A i \in 1 .. Len(copyLog) :
        LET e == copyLog[i] IN
        fence[<<"render", e.rid>>] >= e.rv =>
            /\ e.tick < tick \/ ~AtStep("Simulate")
            /\ ~Outstanding(e.tick)

\* the render fence has reached the value signaled by the Draw of the
\* second tick
C32_SecondFrameSignaled ==
    \E i \in 1 .. Len(copyLog) :
        /\ copyLog[i].tick = 2
        /\ fence[<<"render", copyLog[i].rid>>] >= copyLog[i].rv

\* ------------------------------------------------- what a tick rebuilds
\* a tick has returned
SettingsTickDone == SettingsBetweenTicks /\ settings.ticked

\* the tick's "new render device?" condition as the GUI left the settings:
\* the render adapter or the full-screen state changed, or the extension box
\* was clicked and the Render of the tick's start supports the extension
RenderChange ==
    \/ settings.prevRenderAdapterIndex # settings.m_renderAdapterIndex
    \/ settings.prevFullScreen # settings.m_fullScreen
    \/ settings.extToggled /\ settings.supports[settings.prevRenderAdapterIndex]

\* the GUI changed the compute adapter in the tick
ComputeChange == settings.prevComputeAdapterIndex # settings.m_computeAdapterIndex

\* the tick deleted a Render and created one, or did neither
RenderRebuilt ==
    /\ settings.rendersDeleted = settings.swapChainsCreated
    /\ settings.rendersDeleted = 1

\* C33 as stated: a tick deletes and creates Render exactly under
\* RenderChange and Compute exactly under ComputeChange, and a tick with
\* neither creates or deletes no instance and re-creates no queue
C33_RebuildIffChanged ==
    SettingsTickDone =>
        /\ RenderRebuilt <=> RenderChange
        /\ settings.computesCreated = 1 <=> ComputeChange
        /\ (~RenderChange /\ ~ComputeChange) =>
              /\ settings.rendersDeleted = 0 /\ settings.swapChainsCreated = 0
              /\ settings.computesCreated = 0
              /\ settings.computeQueuesCreated = 0

\* C33: a tick deletes and creates Render exactly under RenderChange and
\* Compute exactly under ComputeChange; a tick with neither creates or deletes
\* no instance, and it re-creates a queue, the compute queue of the existing
\* Compute, only if the extension box was clicked
C33_RebuildIffSettingChanged ==
    SettingsTickDone =>
        /\ RenderRebuilt <=> RenderChange
        /\ ~RenderRebuilt =>
              settings.rendersDeleted = 0 /\ settings.swapChainsCreated = 0
        /\ settings.computesCreated = 1 <=> ComputeChange
        /\ settings.computesCreated \in {0, 1}
        /\ (~RenderChange /\ ~ComputeChange) =>
              /\ settings.rendersDeleted = 0 /\ settings.swapChainsCreated = 0
              /\ settings.computesCreated = 0
              /\ settings.computeQueuesCreated \in {0, 1}
              /\ settings.computeQueuesCreated = 1 => settings.extToggled

\* the extension box was clicked while Render's device does not support the
\* extension and Compute's does: Render is kept, the compute queue is not
C33_ToggledWithoutRenderSupport ==
    /\ SettingsTickDone
    /\ settings.extToggled
    /\ ~RenderChange /\ ~ComputeChange
    /\ settings.rendersDeleted = 0
    /\ settings.computeQueuesCreated = 1

\* ------------------------------------------------------- buffer indices
\* Render id exists before and after the step and has imported a heap before
\* it: its m_sharedBufferIndex has been assigned
Importing(id) ==
    /\ render[id].alive /\ render'[id].alive
    /\ render[id].m_sharedBuffers # NoId

\* C34: whenever Particles::Draw is about to be called, Render's
\* m_sharedBufferIndex equals Compute's m_bufferIndex and these two and
\* m_currentBufferIndex are 0 or 1; Render::Draw flips m_sharedBufferIndex and
\* m_currentBufferIndex, Compute::Simulate flips m_bufferIndex, and no other
\* step changes the index of an instance
C34_IndicesFlipOncePerTick ==
    [][/\ AtStep("Draw")' =>
             LET r == render'[particles'.m_pRender]
                 c == compute'[particles'.m_pCompute]
             IN /\ r.m_sharedBufferIndex = c.m_bufferIndex
                /\ {r.m_sharedBufferIndex, r.m_currentBufferIndex, c.m_bufferIndex}
                      \subseteq Slots
       /\ Draw =>
             LET rid == particles.m_pRender IN
             /\ render'[rid].m_sharedBufferIndex = 1 - render[rid].m_sharedBufferIndex
             /\ render'[rid].m_currentBufferIndex = 1 - render[rid].m_currentBufferIndex
       /\ Simulate =>
             LET cid == particles.m_pCompute IN
             compute'[cid].m_bufferIndex = 1 - compute[cid].m_bufferIndex
       /\ \A id \in Ids :
             /\ (Importing(id) /\ render'[id].m_sharedBufferIndex
                                     # render[id].m_sharedBufferIndex) => Draw
             /\ (render[id].alive /\ render'[id].alive
                   /\ render'[id].m_currentBufferIndex
                        # render[id].m_currentBufferIndex) => Draw
             /\ (compute[id].alive /\ compute'[id].alive
                   /\ compute'[id].m_bufferIndex # compute[id].m_bufferIndex)
                  => Simulate]_vars

\* ------------------------------------------------- Compute::GetFenceValue
\* the copy queue of Render rid has a Wait for value v of fence f queued
CopyQueueWaits(rid, f, v) ==
    \E i \in 1 .. Len(queue[<<"copy", rid>>]) :
        queue[<<"copy", rid>>][i] = WaitCmd(f, v)

\* C35: the value Particles::Draw reads through GetFenceValue before
\* Render::Draw is larger than every value passed so far to Signal on the
\* compute fence; the copy queue is made to wait for exactly that value of
\* that fence, and the next Signal on the fence, the one Compute::Simulate
\* submits in the same tick, carries it
C35_CopyWaitsForThisTicksSignal ==
    [][/\ Draw =>
             LET cid == particles.m_pCompute
                 f == <<"compute", cid>>
                 v == compute[cid].m_fenceValue
             IN /\ \A i \in 1 .. Len(sigLog[f]) : sigLog[f][i] < v
                /\ sigLog'[f] = sigLog[f]
                /\ CopyQueueWaits(particles.m_pRender, f, v)'
       /\ Simulate =>
             LET cid == particles.m_pCompute
                 f == <<"compute", cid>>
                 e == copyLog[Len(copyLog)]
             IN /\ e.tick = tick /\ e.cid = cid
                /\ \A i \in 1 .. Len(sigLog[f]) : sigLog[f][i] < e.cv
                /\ sigLog'[f] = Append(sigLog[f], e.cv)]_vars

\* in the third tick Simulate has signaled the value the copy of that tick
\* waits for, and the copy queue has not got to that Wait yet
C35_ThirdTickSignaled ==
    /\ tickInfo.tick = 3 /\ tickInfo.simulated
    /\ LET e == copyLog[Len(copyLog)]
           f == <<"compute", e.cid>>
       IN /\ e.tick = 3
          /\ sigLog[f][Len(sigLog[f])] = e.cv
          /\ CopyQueueWaits(e.rid, f, e.cv)

\* ------------------------------------------------------ frames in flight
\* the ticks whose copy, draw or dispatch is queued or executing
TicksOutstanding ==
    {x.tick : x \in {y \in UNION {Pending(q) : q \in QueueIds} : y.kind \in TickWork}}

\* C36: when Particles::Draw has returned for a tick, the copy, the draw and
\* the dispatch of every earlier tick have retired; so at any moment only the
\* current tick and the one before it have work queued or executing
C36_OneFrameBehind ==
    /\ BetweenTicks => \A t \in TicksOutstanding : t >= tick
    /\ \A t \in TicksOutstanding : t >= tick - 1

\* Particles::Draw has returned for the second tick after waiting on the
\* handle of Render::Draw, with work of that tick still outstanding
C36_ReturnedAhead ==
    /\ AtStep("Draw") /\ tick = 2
    /\ Len(tickInfo.waits) = 2
    /\ 2 \in TicksOutstanding

\* --------------------------------------------------- command allocators
\* the command lists the host submits to queue q in this step; each was
\* recorded after a Reset of the allocator x.a of the queue's owner
Recorded(q) ==
    IF Len(queue'[q]) > Len(queue[q])
    THEN {queue'[q][i].x :
            i \in {j \in (Len(queue[q]) + 1) .. Len(queue'[q]) : queue'[q][j].op = "exec"}}
    ELSE {}

\* C37: when the host resets a command allocator and records a list through
\* it, no list recorded earlier through that allocator is still queued or
\* executing on the owner's queue
C37_AllocatorsIdleAtReset ==
    [][\A q \in QueueIds : \A x \in Recorded(q) :
          \A y \in Pending(q) : y.a # x.a]_vars

\* the third tick's Render::Draw has recorded its copy through one copy
\* allocator while the second tick's copy, recorded through the other one, is
\* still outstanding
C37_AllocatorReused ==
    /\ AtStep("Simulate") /\ tick = 3
    /\ \E x \in Pending(<<"copy", particles.m_pRender>>) :
          x.tick = 2 /\ x.a = render[particles.m_pRender].m_frameIndex
    /\ \E x \in Pending(<<"copy", particles.m_pRender>>) :
          x.tick = 3 /\ x.a = 1 - render[particles.m_pRender].m_frameIndex

====
